---- MODULE Spec2Model ----
(***************************************************************************)
(* A model of rusty-iter (include/rusty-iter.hpp): pull-based iterator     *)
(* pipelines.  An iterator object is a record holding the fields of the    *)
(* C++ struct; next(self, env) is IterBase::next, returning the advanced   *)
(* object, the item (as an optional) and the state of the world outside    *)
(* the object (the counters that by-reference user callbacks touch).       *)
(*                                                                         *)
(* std::optional<T> is a sequence of length 0 (empty) or 1.  A pointer     *)
(* returned by next() is modelled by the optional of the value it points   *)
(* to (nullptr is the empty optional).                                     *)
(*                                                                         *)
(* Every iterator record carries one observation field, log: the results   *)
(* of all next() calls made on that object so far.  It is written only by  *)
(* next and read only by the properties.                                   *)
(***************************************************************************)
EXTENDS Integers, Sequences, FiniteSets, TLC

\* ------------------------------------------------------------------ bounds
\* Longest collection handed to iter(collection).
MaxLen == 2
\* Upper bound of the finite ranges.
MaxRange == 4
\* Largest step_by stride.
MaxStep == 2
\* Largest skip / take count.
MaxCount == 2
\* Number of adaptor stages stacked on a producer.
MaxStages == 1
\* Number of next() / peek() calls made on the finished pipeline.
MaxCalls == 6

\* ---------------------------------------------------------------- optionals
None == <<>>
Some(v) == <<v>>
IsNone(o) == Len(o) = 0
IsSome(o) == Len(o) = 1
Get(o) == o[1]

\* The world outside the pipeline the caller works with: how often each user
\* callback that captures by reference has been invoked, and the iterator
\* object the caller holds in a variable of its own, if it holds one (the
\* object a reference designates).
Env0 ==
    [gen |-> 0, sep |-> 0, pred |-> 0, mapf |-> 0, insp |-> 0, succ |-> 0, cons |-> 0,
     original |-> None]

\* -------------------------------------------------------------- item type
\* The integer type T of the ranges is a signed integer of IntBits bits
\* (int8_t): the result of `_value += _step` is converted back to T and
\* wraps around.
IntBits == 8
IntMin == -(2 ^ (IntBits - 1))
IntMax == 2 ^ (IntBits - 1) - 1
WrapInt(v) == ((v - IntMin) % (2 ^ IntBits)) + IntMin

\* The conversion of an integer to the type T of the variable it is
\* assigned to.  The ranges have T = int8_t; the collections are
\* std::vector<int> and the literals and lambda results are int, and no
\* value of the model comes near the ends of int (or of size_t), so that
\* these conversions change nothing.
Convert(T, v) == IF T = "int8_t" THEN WrapInt(v) ELSE v

\* ------------------------------------------------------------------ functors
\* detail::Counter (skip / take): returns _currentCount++ < _maxCount.
Counter(count) == [f |-> "Counter", currentCount |-> 0, maxCount |-> count]

\* detail::Getter<T> (intersperse): returns the stored separator.  T is the
\* OutType of the pipeline: intersperse(const OutType& separator) converts
\* its argument before the getter stores it.
Getter(T, value) == [f |-> "Getter", value |-> Convert(T, value)]

\* detail::InfiniteRangeGenerator<T>.  T is the item type int8_t, or size_t,
\* the default index type of enumerate: an index counts the next() calls of
\* one run from 0 and stays far below 2^64, where size_t would wrap.
InfiniteRangeGenerator(T, start, step) ==
    [f |-> "InfiniteRangeGenerator", T |-> T, value |-> start, step |-> step]

\* detail::FiniteRangeGenerator<T, Inclusive>, with T = int8_t.
FiniteRangeGenerator(start, end, step, inclusive) ==
    [f |-> "FiniteRangeGenerator", value |-> start, end |-> end, step |-> step,
     inclusive |-> inclusive]

\* detail::YieldOnce
YieldOnce(value) == [f |-> "YieldOnce", value |-> value, done |-> FALSE]

\* detail::YieldOnceWith; the wrapped function returns the constant value.
YieldOnceWith(value) == [f |-> "YieldOnceWith", value |-> value, done |-> FALSE]

\* detail::YieldValue (repeat)
YieldValue(value) == [f |-> "YieldValue", value |-> value]

\* detail::SuccessorCalculator; the successor function doubles a value and
\* returns no value once the double would exceed limit.
SuccessorCalculator(initialValue, limit) ==
    [f |-> "SuccessorCalculator", value |-> initialValue, limit |-> limit]

\* FiniteCountingGenerator of the tests: it holds its position by value
\* (_value, _maxValue), so every copy of the iterator counts on its own.
FiniteCountingGenerator(startValue, maxValue) ==
    [f |-> "FiniteCountingGenerator", value |-> startValue, maxValue |-> maxValue]

\* A user generator lambda that captures a call counter by reference: its
\* k-th call (counted in env.gen) returns script[k], and no value after the
\* end of the script.  A script may return a value again after "no value".
UserGenerator(script) == [f |-> "UserGenerator", script |-> script]

\* A user separator lambda capturing a counter by reference, as in the test
\* `[&]() { return --number; }`; number is the counter's value when the
\* lambda is handed to intersperse_with (env.sep counts the calls since).
UserSeparator(number) == [f |-> "UserSeparator", number |-> number]

\* User predicates and transforms (pure; their calls are counted in env).
IsEven == [f |-> "IsEven"]
LessThan(k) == [f |-> "LessThan", k |-> k]
TimesTwo == [f |-> "TimesTwo"]
DoubleIfEven == [f |-> "DoubleIfEven"]
Observe == [f |-> "Observe"]

\* The successor function used with successors().
DoubleUpTo(limit, prev) == IF 2 * prev <= limit THEN Some(2 * prev) ELSE None

\* Faulty variant: the exclusive range tests its bound with <= too.
CallGenerator_InclusiveBound(g, env) ==
    CASE g.f = "InfiniteRangeGenerator" ->
           [fn |-> [g EXCEPT !.value = IF g.T = "size_t" THEN g.value + g.step
                                       ELSE WrapInt(g.value + g.step)],
            ret |-> g.value, env |-> env]
      [] g.f = "YieldValue" ->
           [fn |-> g, ret |-> g.value, env |-> env]
      [] g.f = "FiniteRangeGenerator" ->
           IF g.value <= g.end
           THEN [fn |-> [g EXCEPT !.value = WrapInt(g.value + g.step)],
                 ret |-> Some(g.value), env |-> env]
           ELSE [fn |-> g, ret |-> None, env |-> env]
      [] g.f \in {"YieldOnce", "YieldOnceWith"} ->
           IF g.done
           THEN [fn |-> g, ret |-> None, env |-> env]
           ELSE [fn |-> [g EXCEPT !.done = TRUE], ret |-> Some(g.value), env |-> env]
      [] g.f = "SuccessorCalculator" ->
           IF IsNone(g.value)
           THEN [fn |-> g, ret |-> g.value, env |-> env]
           ELSE [fn |-> [g EXCEPT !.value = DoubleUpTo(g.limit, Get(g.value))],
                 ret |-> Some(Get(g.value)), env |-> [env EXCEPT !.succ = @ + 1]]
      [] g.f = "FiniteCountingGenerator" ->
           IF g.value >= g.maxValue
           THEN [fn |-> g, ret |-> None, env |-> env]
           ELSE [fn |-> [g EXCEPT !.value = g.value + 1], ret |-> Some(g.value),
                 env |-> env]
      [] g.f = "UserGenerator" ->
           [fn |-> g,
            ret |-> IF env.gen + 1 <= Len(g.script) THEN g.script[env.gen + 1] ELSE None,
            env |-> [env EXCEPT !.gen = @ + 1]]

\* Faulty variant: SuccessorCalculator returns the successor it has just
\* computed, so the last value before "no value" is lost.
CallGenerator_SuccessorAhead(g, env) ==
    CASE g.f = "InfiniteRangeGenerator" ->
           [fn |-> [g EXCEPT !.value = IF g.T = "size_t" THEN g.value + g.step
                                       ELSE WrapInt(g.value + g.step)],
            ret |-> g.value, env |-> env]
      [] g.f = "YieldValue" ->
           [fn |-> g, ret |-> g.value, env |-> env]
      [] g.f = "FiniteRangeGenerator" ->
           LET hasValue == IF g.inclusive THEN g.value <= g.end ELSE g.value < g.end
           IN IF hasValue
              THEN [fn |-> [g EXCEPT !.value = WrapInt(g.value + g.step)],
                    ret |-> Some(g.value), env |-> env]
              ELSE [fn |-> g, ret |-> None, env |-> env]
      [] g.f \in {"YieldOnce", "YieldOnceWith"} ->
           IF g.done
           THEN [fn |-> g, ret |-> None, env |-> env]
           ELSE [fn |-> [g EXCEPT !.done = TRUE], ret |-> Some(g.value), env |-> env]
      [] g.f = "SuccessorCalculator" ->
           IF IsNone(g.value)
           THEN [fn |-> g, ret |-> g.value, env |-> env]
           ELSE [fn |-> [g EXCEPT !.value = DoubleUpTo(g.limit, Get(g.value))],
                 ret |-> IF IsSome(DoubleUpTo(g.limit, Get(g.value)))
                         THEN Some(Get(g.value)) ELSE None,
                 env |-> [env EXCEPT !.succ = @ + 1]]
      [] g.f = "FiniteCountingGenerator" ->
           IF g.value >= g.maxValue
           THEN [fn |-> g, ret |-> None, env |-> env]
           ELSE [fn |-> [g EXCEPT !.value = g.value + 1], ret |-> Some(g.value),
                 env |-> env]
      [] g.f = "UserGenerator" ->
           [fn |-> g,
            ret |-> IF env.gen + 1 <= Len(g.script) THEN g.script[env.gen + 1] ELSE None,
            env |-> [env EXCEPT !.gen = @ + 1]]

\* operator() of the generator functors: [fn, ret, env].
CallGenerator(g, env) ==
    CASE g.f = "InfiniteRangeGenerator" ->
           [fn |-> [g EXCEPT !.value = IF g.T = "size_t" THEN g.value + g.step
                                       ELSE WrapInt(g.value + g.step)],
            ret |-> g.value, env |-> env]
      [] g.f = "YieldValue" ->
           [fn |-> g, ret |-> g.value, env |-> env]
      [] g.f = "FiniteRangeGenerator" ->
           LET hasValue == IF g.inclusive THEN g.value <= g.end ELSE g.value < g.end
           IN IF hasValue
              THEN [fn |-> [g EXCEPT !.value = WrapInt(g.value + g.step)],
                    ret |-> Some(g.value), env |-> env]
              ELSE [fn |-> g, ret |-> None, env |-> env]
      [] g.f \in {"YieldOnce", "YieldOnceWith"} ->
           IF g.done
           THEN [fn |-> g, ret |-> None, env |-> env]
           ELSE [fn |-> [g EXCEPT !.done = TRUE], ret |-> Some(g.value), env |-> env]
      [] g.f = "SuccessorCalculator" ->
           IF IsNone(g.value)
           THEN [fn |-> g, ret |-> g.value, env |-> env]
           ELSE [fn |-> [g EXCEPT !.value = DoubleUpTo(g.limit, Get(g.value))],
                 ret |-> Some(Get(g.value)), env |-> [env EXCEPT !.succ = @ + 1]]
      [] g.f = "FiniteCountingGenerator" ->
           IF g.value >= g.maxValue
           THEN [fn |-> g, ret |-> None, env |-> env]
           ELSE [fn |-> [g EXCEPT !.value = g.value + 1], ret |-> Some(g.value),
                 env |-> env]
      [] g.f = "UserGenerator" ->
           [fn |-> g,
            ret |-> IF env.gen + 1 <= Len(g.script) THEN g.script[env.gen + 1] ELSE None,
            env |-> [env EXCEPT !.gen = @ + 1]]

\* operator() of the separator getters: [fn, ret, env].
CallSeparator(s, env) ==
    CASE s.f = "Getter" -> [fn |-> s, ret |-> s.value, env |-> env]
      [] s.f = "UserSeparator" ->
           [fn |-> s, ret |-> s.number - (env.sep + 1),
            env |-> [env EXCEPT !.sep = @ + 1]]

\* Faulty variant: Counter compares with <= and lets one call too many pass.
CallPredicate_CounterOffByOne(p, v, env) ==
    CASE p.f = "Counter" ->
           [fn |-> [p EXCEPT !.currentCount = @ + 1],
            ret |-> p.currentCount <= p.maxCount, env |-> env]
      [] p.f = "IsEven" ->
           [fn |-> p, ret |-> v % 2 = 0, env |-> [env EXCEPT !.pred = @ + 1]]
      [] p.f = "LessThan" ->
           [fn |-> p, ret |-> v < p.k, env |-> [env EXCEPT !.pred = @ + 1]]

\* operator() of the predicates: [fn, ret, env].
CallPredicate(p, v, env) ==
    CASE p.f = "Counter" ->
           [fn |-> [p EXCEPT !.currentCount = @ + 1],
            ret |-> p.currentCount < p.maxCount, env |-> env]
      [] p.f = "IsEven" ->
           [fn |-> p, ret |-> v % 2 = 0, env |-> [env EXCEPT !.pred = @ + 1]]
      [] p.f = "LessThan" ->
           [fn |-> p, ret |-> v < p.k, env |-> [env EXCEPT !.pred = @ + 1]]

\* The map function, the filter_map function and the inspect callback.
CallMap(m, v, env) == [ret |-> 2 * v, env |-> [env EXCEPT !.mapf = @ + 1]]
CallFilterMap(m, v, env) ==
    [ret |-> IF v % 2 = 0 THEN Some(2 * v) ELSE None,
     env |-> [env EXCEPT !.pred = @ + 1]]
CallInspect(c, v, env) == [env EXCEPT !.insp = @ + 1]

\* ------------------------------------------------------------ iterator core
RECURSIVE next(_, _)

\* An iterator object is a record, and the upstream an adaptor holds in its
\* value member (IterType _iter) is a field of that record.  A reference
\* (*this, const IterType&) designates the object the caller holds in the
\* world; T is the OutType of the object's type.
Reference(T) == [kind |-> "Reference", T |-> T, log |-> <<>>]

\* The object that x designates.
Referenced(x, env) == IF x.kind = "Reference" THEN env.original ELSE x

\* Faulty variant: the upstream member is declared as a reference
\* (const IterType& _iter), the stage keeps the reference it was handed.
IterType_copy_KeepsReference(iter, env) == iter

\* The copy constructor of an iterator type.  Every adaptor method hands
\* *concrete_iter() by const reference to the constructor of the stage, and
\* the constructor initialises its member from it (_iter(iter)): the member
\* is a new object with the state the designated object has at that moment.
IterType_copy(iter, env) == Referenced(iter, env)

\* A call of next() through a reference advances the designated object.
Reference_called(self, r) ==
    [it |-> self, val |-> r.val, env |-> [r.env EXCEPT !.original = r.it]]

Reference_next_internal(self, env) == Reference_called(self, next(env.original, env))

\* The member type OutType of an iterator type: the item type of the
\* pipeline.  A generator yields what its function returns; the
\* collections handed to iter() are std::vector<int> (std::vector<float>
\* for the comparisons, which convert no item), those handed to flatten
\* hold ranges; the map and filter_map lambdas return int; every other
\* adaptor has the OutType of its upstream.
RECURSIVE OutType(_)
OutType(self) ==
    CASE self.kind \in {"GeneratorIter", "FiniteGeneratorIter"} ->
           IF self.generatorFunction.f = "FiniteRangeGenerator" THEN "int8_t"
           ELSE IF self.generatorFunction.f = "InfiniteRangeGenerator"
                THEN self.generatorFunction.T
                ELSE "int"
      [] self.kind \in {"CppIteratorWrapper", "EmptyIter"} -> "int"
      [] self.kind = "Reference" -> self.T
      [] self.kind \in {"MapIter", "FilterMapIter"} -> "int"
      [] self.kind = "ZipIter" -> "pair"
      [] self.kind = "FlattenIter" -> "int8_t"
      [] self.kind = "CycleIter" -> OutType(self.originalIter)
      [] OTHER -> OutType(self.iter)

\* CppIteratorWrapper: _begin and _end are positions in the collection data.
CppIteratorWrapper(data) ==
    [kind |-> "CppIteratorWrapper", data |-> data, begin |-> 1,
     end |-> Len(data) + 1, log |-> <<>>]

CppIteratorWrapper_next_internal(self, env) ==
    IF self.begin = self.end
    THEN [it |-> self, val |-> None, env |-> env]
    ELSE [it |-> [self EXCEPT !.begin = @ + 1], val |-> Some(self.data[self.begin]),
          env |-> env]

\* GeneratorIter
GeneratorIter(generatorFunction) ==
    [kind |-> "GeneratorIter", generatorFunction |-> generatorFunction, log |-> <<>>]

GeneratorIter_next_internal(self, env) ==
    LET c == CallGenerator(self.generatorFunction, env)
    IN [it |-> [self EXCEPT !.generatorFunction = c.fn], val |-> Some(c.ret),
        env |-> c.env]

\* FiniteGeneratorIter
FiniteGeneratorIter(generatorFunction) ==
    [kind |-> "FiniteGeneratorIter", generatorFunction |-> generatorFunction,
     done |-> FALSE, log |-> <<>>]

\* Faulty variant: _done is never consulted, the function is called again
\* after it has returned no value.
FiniteGeneratorIter_next_internal_NoDone(self, env) ==
    LET c == CallGenerator(self.generatorFunction, env)
    IN [it |-> [self EXCEPT !.generatorFunction = c.fn, !.done = IsNone(c.ret)],
        val |-> c.ret, env |-> c.env]

\* Faulty variant: the function is called before _done is looked at.
FiniteGeneratorIter_next_internal_CallsFirst(self, env) ==
    LET c == CallGenerator(self.generatorFunction, env)
    IN IF self.done \/ IsNone(c.ret)
       THEN [it |-> [self EXCEPT !.generatorFunction = c.fn, !.done = TRUE],
             val |-> None, env |-> c.env]
       ELSE [it |-> [self EXCEPT !.generatorFunction = c.fn], val |-> c.ret,
             env |-> c.env]

FiniteGeneratorIter_next_internal(self, env) ==
    IF self.done
    THEN [it |-> self, val |-> None, env |-> env]
    ELSE LET c == CallGenerator(self.generatorFunction, env)
         IN IF IsSome(c.ret)
            THEN [it |-> [self EXCEPT !.generatorFunction = c.fn], val |-> c.ret,
                  env |-> c.env]
            ELSE [it |-> [self EXCEPT !.generatorFunction = c.fn, !.done = TRUE],
                  val |-> None, env |-> c.env]

\* EmptyIter
EmptyIter == [kind |-> "EmptyIter", log |-> <<>>]

EmptyIter_next_internal(self, env) == [it |-> self, val |-> None, env |-> env]

\* StepByIter
\* Faulty variant: only a negative step size is invalid.
StepByIter_ZeroValid(iter, stepSize) ==
    [kind |-> "StepByIter", iter |-> iter, stepSize |-> stepSize, first |-> TRUE,
     invalid |-> (stepSize < 0), log |-> <<>>]

StepByIter(iter, stepSize) ==
    [kind |-> "StepByIter", iter |-> iter, stepSize |-> stepSize, first |-> TRUE,
     invalid |-> (stepSize <= 0), log |-> <<>>]

\* for (T i = 0; i < _stepSize; ++i) { last = _iter.next(); }
RECURSIVE StepByLoop(_, _, _, _, _)
StepByLoop(iter, env, i, stepSize, last) ==
    IF i < stepSize
    THEN LET r == next(iter, env)
         IN StepByLoop(r.it, r.env, i + 1, stepSize, r.val)
    ELSE [it |-> iter, val |-> last, env |-> env]

\* Faulty variant: the first call strides like every other call.
StepByIter_next_internal_NoFirst(self, env) ==
    IF self.invalid
    THEN [it |-> self, val |-> None, env |-> env]
    ELSE LET r == StepByLoop(self.iter, env, 0, self.stepSize, None)
         IN [it |-> [self EXCEPT !.first = FALSE, !.iter = r.it], val |-> r.val,
             env |-> r.env]

StepByIter_next_internal(self, env) ==
    IF self.invalid
    THEN [it |-> self, val |-> None, env |-> env]
    ELSE IF self.first
         THEN LET r == next(self.iter, env)
              IN [it |-> [self EXCEPT !.first = FALSE, !.iter = r.it],
                  val |-> r.val, env |-> r.env]
         ELSE LET r == StepByLoop(self.iter, env, 0, self.stepSize, None)
              IN [it |-> [self EXCEPT !.iter = r.it], val |-> r.val, env |-> r.env]

\* ChainIter
ChainIter(iter, chainedIter) ==
    [kind |-> "ChainIter", iter |-> iter, chainedIter |-> chainedIter,
     firstDone |-> FALSE, log |-> <<>>]

\* Faulty variant: _firstDone is never set, the first iterator is asked again
\* on every call.
ChainIter_next_internal_NoFirstDone(self, env) ==
    LET r == next(self.iter, env)
        s1 == [self EXCEPT !.iter = r.it]
        c == next(s1.chainedIter, r.env)
    IN IF IsSome(r.val)
       THEN [it |-> s1, val |-> r.val, env |-> r.env]
       ELSE [it |-> [s1 EXCEPT !.chainedIter = c.it], val |-> c.val, env |-> c.env]

\* Faulty variant: the chained iterator is drained first and the first
\* iterator after it.
ChainIter_next_internal_ChainedFirst(self, env) ==
    LET c == next(self.chainedIter, env)
        r == next(self.iter, c.env)
    IN IF IsSome(c.val)
       THEN [it |-> [self EXCEPT !.chainedIter = c.it], val |-> c.val, env |-> c.env]
       ELSE [it |-> [self EXCEPT !.chainedIter = c.it, !.iter = r.it],
             val |-> r.val, env |-> r.env]

ChainIter_next_internal(self, env) ==
    LET r == next(self.iter, env)
        taken == ~self.firstDone /\ IsSome(r.val)
        s1 == IF self.firstDone THEN self
              ELSE [self EXCEPT !.iter = r.it, !.firstDone = IsNone(r.val)]
        e1 == IF self.firstDone THEN env ELSE r.env
        c == next(s1.chainedIter, e1)
    IN IF taken
       THEN [it |-> s1, val |-> r.val, env |-> e1]
       ELSE [it |-> [s1 EXCEPT !.chainedIter = c.it], val |-> c.val, env |-> c.env]

\* ZipIter
ZipIter(iter, zippedIter) ==
    [kind |-> "ZipIter", iter |-> iter, zippedIter |-> zippedIter,
     anyDone |-> FALSE, log |-> <<>>]

\* Faulty variant: the zipped iterator is not advanced when the first one has
\* no value.
ZipIter_next_internal_ShortCircuit(self, env) ==
    IF self.anyDone
    THEN [it |-> self, val |-> None, env |-> env]
    ELSE LET value == next(self.iter, env)
             zippedValue == next(self.zippedIter, value.env)
             s1 == [self EXCEPT !.iter = value.it, !.zippedIter = zippedValue.it]
         IN IF IsNone(value.val)
            THEN [it |-> [self EXCEPT !.iter = value.it, !.anyDone = TRUE],
                  val |-> None, env |-> value.env]
            ELSE IF IsNone(zippedValue.val)
                 THEN [it |-> [s1 EXCEPT !.anyDone = TRUE], val |-> None,
                       env |-> zippedValue.env]
                 ELSE [it |-> s1,
                       val |-> Some(<<Get(value.val), Get(zippedValue.val)>>),
                       env |-> zippedValue.env]

\* Faulty variant: the pair holds the second upstream's item first.
ZipIter_next_internal_Swapped(self, env) ==
    IF self.anyDone
    THEN [it |-> self, val |-> None, env |-> env]
    ELSE LET value == next(self.iter, env)
             zippedValue == next(self.zippedIter, value.env)
             s1 == [self EXCEPT !.iter = value.it, !.zippedIter = zippedValue.it]
         IN IF IsNone(value.val) \/ IsNone(zippedValue.val)
            THEN [it |-> [s1 EXCEPT !.anyDone = TRUE], val |-> None,
                  env |-> zippedValue.env]
            ELSE [it |-> s1, val |-> Some(<<Get(zippedValue.val), Get(value.val)>>),
                  env |-> zippedValue.env]

ZipIter_next_internal(self, env) ==
    IF self.anyDone
    THEN [it |-> self, val |-> None, env |-> env]
    ELSE LET value == next(self.iter, env)
             zippedValue == next(self.zippedIter, value.env)
             s1 == [self EXCEPT !.iter = value.it, !.zippedIter = zippedValue.it]
         IN IF IsNone(value.val) \/ IsNone(zippedValue.val)
            THEN [it |-> [s1 EXCEPT !.anyDone = TRUE], val |-> None,
                  env |-> zippedValue.env]
            ELSE [it |-> s1, val |-> Some(<<Get(value.val), Get(zippedValue.val)>>),
                  env |-> zippedValue.env]

\* Faulty variant: the constructor also makes the first separator.
IntersperseWithIter_EagerSeparator(iter, separatorGetter, env) ==
    LET r == next(iter, env)
        c == CallSeparator(separatorGetter, r.env)
    IN [it |-> [kind |-> "IntersperseWithIter", iter |-> r.it,
                separatorGetter |-> c.fn, nextResult |-> r.val,
                separatorIsNext |-> FALSE, log |-> <<>>],
        env |-> c.env]

\* IntersperseWithIter.  The constructor pulls the first item of _iter; it
\* returns the constructed object and the world after that pull.
IntersperseWithIter(iter, separatorGetter, env) ==
    LET r == next(iter, env)
    IN [it |-> [kind |-> "IntersperseWithIter", iter |-> r.it,
                separatorGetter |-> separatorGetter, nextResult |-> r.val,
                separatorIsNext |-> FALSE, log |-> <<>>],
        env |-> r.env]

\* Faulty variant: a separator follows every item, the last one included.
IntersperseWithIter_next_internal_Trailing(self, env) ==
    IF self.separatorIsNext
    THEN LET c == CallSeparator(self.separatorGetter, env)
         IN [it |-> [self EXCEPT !.separatorIsNext = FALSE, !.separatorGetter = c.fn],
             val |-> Some(Convert(OutType(self.iter), c.ret)), env |-> c.env]
    ELSE IF IsSome(self.nextResult)
         THEN LET r == next(self.iter, env)
              IN [it |-> [self EXCEPT !.iter = r.it, !.nextResult = r.val,
                                      !.separatorIsNext = TRUE],
                  val |-> self.nextResult, env |-> r.env]
         ELSE [it |-> self, val |-> None, env |-> env]

\* Faulty variant: _separatorIsNext is never set, no separator is returned.
IntersperseWithIter_next_internal_NoSeparator(self, env) ==
    IF IsSome(self.nextResult)
    THEN LET r == next(self.iter, env)
         IN [it |-> [self EXCEPT !.iter = r.it, !.nextResult = r.val],
             val |-> self.nextResult, env |-> r.env]
    ELSE [it |-> self, val |-> None, env |-> env]

IntersperseWithIter_next_internal(self, env) ==
    IF self.separatorIsNext
    THEN LET c == CallSeparator(self.separatorGetter, env)
         IN [it |-> [self EXCEPT !.separatorIsNext = FALSE, !.separatorGetter = c.fn],
             val |-> Some(Convert(OutType(self.iter), c.ret)), env |-> c.env]
    ELSE IF IsSome(self.nextResult)
         THEN LET r == next(self.iter, env)
              IN [it |-> [self EXCEPT !.iter = r.it, !.nextResult = r.val,
                                      !.separatorIsNext = IsSome(r.val)],
                  val |-> self.nextResult, env |-> r.env]
         ELSE [it |-> self, val |-> None, env |-> env]

\* MapIter
MapIter(iter, mapFunction) ==
    [kind |-> "MapIter", iter |-> iter, mapFunction |-> mapFunction, log |-> <<>>]

MapIter_next_internal(self, env) ==
    LET r == next(self.iter, env)
        c == CallMap(self.mapFunction, Get(r.val), r.env)
    IN IF IsSome(r.val)
       THEN [it |-> [self EXCEPT !.iter = r.it], val |-> Some(c.ret), env |-> c.env]
       ELSE [it |-> [self EXCEPT !.iter = r.it], val |-> None, env |-> r.env]

\* FilterIter
FilterIter(iter, filterFunction) ==
    [kind |-> "FilterIter", iter |-> iter, filterFunction |-> filterFunction,
     log |-> <<>>]

\* while (const InType* current = _iter.next()) { if (f(*current)) return current; }
RECURSIVE FilterIter_next_internal(_, _)
FilterIter_next_internal(self, env) ==
    LET r == next(self.iter, env)
        c == CallPredicate(self.filterFunction, Get(r.val), r.env)
        s1 == [self EXCEPT !.iter = r.it]
    IN IF IsNone(r.val)
       THEN [it |-> s1, val |-> None, env |-> r.env]
       ELSE IF c.ret
            THEN [it |-> [s1 EXCEPT !.filterFunction = c.fn], val |-> r.val,
                  env |-> c.env]
            ELSE FilterIter_next_internal([s1 EXCEPT !.filterFunction = c.fn], c.env)

\* FilterMapIter
FilterMapIter(iter, filterMapFunction) ==
    [kind |-> "FilterMapIter", iter |-> iter,
     filterMapFunction |-> filterMapFunction, log |-> <<>>]

RECURSIVE FilterMapIter_next_internal(_, _)
FilterMapIter_next_internal(self, env) ==
    LET r == next(self.iter, env)
        c == CallFilterMap(self.filterMapFunction, Get(r.val), r.env)
        s1 == [self EXCEPT !.iter = r.it]
    IN IF IsNone(r.val)
       THEN [it |-> s1, val |-> None, env |-> r.env]
       ELSE IF IsSome(c.ret)
            THEN [it |-> s1, val |-> c.ret, env |-> c.env]
            ELSE FilterMapIter_next_internal(s1, c.env)

\* PeekableIter.  _nextItem is an optional of an optional: None is "next item
\* unknown", Some(None) "known, no value", Some(Some(v)) "known, value v".
PeekableIter(iter) ==
    [kind |-> "PeekableIter", iter |-> iter, nextItem |-> None, log |-> <<>>]

\* PeekableIter::peek
peek(self, env) ==
    IF IsNone(self.nextItem)
    THEN LET r == next(self.iter, env)
         IN IF IsSome(r.val)
            THEN [it |-> [self EXCEPT !.iter = r.it, !.nextItem = Some(r.val)],
                  val |-> r.val, env |-> r.env]
            ELSE \* _nextItem.reset(); return nullptr;
                 [it |-> [self EXCEPT !.iter = r.it, !.nextItem = None],
                  val |-> None, env |-> r.env]
    ELSE [it |-> self, val |-> Get(self.nextItem), env |-> env]

\* Faulty variant: the peeked item is returned but not cleared.
PeekableIter_next_internal_KeepsPeeked(self, env) ==
    IF IsSome(self.nextItem)
    THEN [it |-> self, val |-> Get(self.nextItem), env |-> env]
    ELSE LET r == next(self.iter, env)
         IN [it |-> [self EXCEPT !.iter = r.it], val |-> r.val, env |-> r.env]

PeekableIter_next_internal(self, env) ==
    IF IsSome(self.nextItem)
    THEN [it |-> [self EXCEPT !.nextItem = None], val |-> Get(self.nextItem),
          env |-> env]
    ELSE LET r == next(self.iter, env)
         IN [it |-> [self EXCEPT !.iter = r.it], val |-> r.val, env |-> r.env]

\* SkipWhileIter
SkipWhileIter(iter, predicate) ==
    [kind |-> "SkipWhileIter", iter |-> iter, predicate |-> predicate,
     done |-> FALSE, log |-> <<>>]

\* while (const OutType* value = _iter.next()) { if (!_predicate(*value)) return value; }
RECURSIVE SkipWhileLoop(_, _)
SkipWhileLoop(self, env) ==
    LET r == next(self.iter, env)
        c == CallPredicate(self.predicate, Get(r.val), r.env)
        s1 == [self EXCEPT !.iter = r.it]
    IN IF IsNone(r.val)
       THEN [it |-> s1, val |-> None, env |-> r.env]
       ELSE IF ~c.ret
            THEN [it |-> [s1 EXCEPT !.predicate = c.fn], val |-> r.val, env |-> c.env]
            ELSE SkipWhileLoop([s1 EXCEPT !.predicate = c.fn], c.env)

\* Faulty variant: _done is never set, the predicate keeps dropping items.
SkipWhileIter_next_internal_NoDone(self, env) == SkipWhileLoop(self, env)

SkipWhileIter_next_internal(self, env) ==
    IF ~self.done
    THEN SkipWhileLoop([self EXCEPT !.done = TRUE], env)
    ELSE LET r == next(self.iter, env)
         IN [it |-> [self EXCEPT !.iter = r.it], val |-> r.val, env |-> r.env]

\* TakeWhileIter
TakeWhileIter(iter, predicate) ==
    [kind |-> "TakeWhileIter", iter |-> iter, predicate |-> predicate,
     done |-> FALSE, log |-> <<>>]

\* Faulty variant: _done is never consulted, items are yielded again when the
\* predicate holds again.
TakeWhileIter_next_internal_NoDone(self, env) ==
    LET r == next(self.iter, env)
        c == CallPredicate(self.predicate, Get(r.val), r.env)
        s1 == [self EXCEPT !.iter = r.it]
    IN IF IsSome(r.val)
       THEN IF c.ret
            THEN [it |-> [s1 EXCEPT !.predicate = c.fn], val |-> r.val, env |-> c.env]
            ELSE [it |-> [s1 EXCEPT !.predicate = c.fn, !.done = TRUE],
                  val |-> None, env |-> c.env]
       ELSE [it |-> [s1 EXCEPT !.done = TRUE], val |-> None, env |-> r.env]

\* Faulty variant: a take looks at its counter before it advances the
\* upstream, so the item behind the last one taken is not pulled.
TakeWhileIter_next_internal_CountsFirst(self, env) ==
    IF self.done
    THEN [it |-> self, val |-> None, env |-> env]
    ELSE IF self.predicate.f = "Counter"
            /\ self.predicate.currentCount >= self.predicate.maxCount
         THEN [it |-> [self EXCEPT !.done = TRUE], val |-> None, env |-> env]
         ELSE LET r == next(self.iter, env)
                  c == CallPredicate(self.predicate, Get(r.val), r.env)
                  s1 == [self EXCEPT !.iter = r.it]
              IN IF IsSome(r.val)
                 THEN IF c.ret
                      THEN [it |-> [s1 EXCEPT !.predicate = c.fn], val |-> r.val,
                            env |-> c.env]
                      ELSE [it |-> [s1 EXCEPT !.predicate = c.fn, !.done = TRUE],
                            val |-> None, env |-> c.env]
                 ELSE [it |-> [s1 EXCEPT !.done = TRUE], val |-> None, env |-> r.env]

TakeWhileIter_next_internal(self, env) ==
    IF self.done
    THEN [it |-> self, val |-> None, env |-> env]
    ELSE LET r == next(self.iter, env)
             c == CallPredicate(self.predicate, Get(r.val), r.env)
             s1 == [self EXCEPT !.iter = r.it]
         IN IF IsSome(r.val)
            THEN IF c.ret
                 THEN [it |-> [s1 EXCEPT !.predicate = c.fn], val |-> r.val,
                       env |-> c.env]
                 ELSE [it |-> [s1 EXCEPT !.predicate = c.fn, !.done = TRUE],
                       val |-> None, env |-> c.env]
            ELSE [it |-> [s1 EXCEPT !.done = TRUE], val |-> None, env |-> r.env]

\* FlattenIter::advance: [it, ok, env]
FlattenIter_advance(self, env) ==
    LET r == next(self.iter, env)
    IN [it |-> [self EXCEPT !.iter = r.it, !.innerIter = r.val],
        ok |-> IsSome(r.val), env |-> r.env]

\* FlattenIter.  The constructor calls advance(); it returns the constructed
\* object and the world after that call.
FlattenIter(iter, env) ==
    LET a == FlattenIter_advance(
                 [kind |-> "FlattenIter", iter |-> iter, innerIter |-> None,
                  log |-> <<>>], env)
    IN [it |-> a.it, env |-> a.env]

\* Faulty variant: after advance() the new inner iterator is asked once
\* instead of looping, so an empty inner iterator ends the call.
FlattenLoop_NoLoop(self, env) ==
    LET r == next(Get(self.innerIter), env)
        s1 == [self EXCEPT !.innerIter = Some(r.it)]
        a == FlattenIter_advance(s1, r.env)
        n == next(Get(a.it.innerIter), a.env)
    IN IF IsSome(r.val)
       THEN [it |-> s1, val |-> r.val, env |-> r.env]
       ELSE IF ~a.ok
            THEN [it |-> a.it, val |-> None, env |-> a.env]
            ELSE [it |-> [a.it EXCEPT !.innerIter = Some(n.it)], val |-> n.val,
                  env |-> n.env]

\* while (true) { if (value = _innerIter->next()) return value; else if (!advance()) return nullptr; }
RECURSIVE FlattenLoop(_, _)
FlattenLoop(self, env) ==
    LET r == next(Get(self.innerIter), env)
        s1 == [self EXCEPT !.innerIter = Some(r.it)]
        a == FlattenIter_advance(s1, r.env)
    IN IF IsSome(r.val)
       THEN [it |-> s1, val |-> r.val, env |-> r.env]
       ELSE IF ~a.ok
            THEN [it |-> a.it, val |-> None, env |-> a.env]
            ELSE FlattenLoop(a.it, a.env)

FlattenIter_next_internal(self, env) ==
    IF IsNone(self.innerIter)
    THEN [it |-> self, val |-> None, env |-> env]
    ELSE FlattenLoop(self, env)

\* InspectIter
InspectIter(iter, inspectCallback) ==
    [kind |-> "InspectIter", iter |-> iter, inspectCallback |-> inspectCallback,
     log |-> <<>>]

InspectIter_next_internal(self, env) ==
    LET r == next(self.iter, env)
    IN [it |-> [self EXCEPT !.iter = r.it], val |-> r.val,
        env |-> IF IsSome(r.val)
                THEN CallInspect(self.inspectCallback, Get(r.val), r.env)
                ELSE r.env]

\* Faulty variant: _iterIsEmpty starts false, an empty upstream is restarted.
CycleIter_StartsNonEmpty(iter) ==
    [kind |-> "CycleIter", originalIter |-> iter, iter |-> iter,
     iterIsEmpty |-> FALSE, log |-> <<>>]

\* CycleIter
CycleIter(iter) ==
    [kind |-> "CycleIter", originalIter |-> iter, iter |-> iter,
     iterIsEmpty |-> TRUE, log |-> <<>>]

\* Faulty variant: after the restart the call reports exhaustion instead of
\* returning the first item of the fresh copy.
CycleIter_next_internal_NoneAtRestart(self, env) ==
    LET r == next(self.iter, env)
    IN IF IsSome(r.val)
       THEN [it |-> [self EXCEPT !.iter = r.it, !.iterIsEmpty = FALSE],
             val |-> r.val, env |-> r.env]
       ELSE IF self.iterIsEmpty
            THEN [it |-> [self EXCEPT !.iter = r.it], val |-> None, env |-> r.env]
            ELSE [it |-> [self EXCEPT !.iter = self.originalIter], val |-> None,
                  env |-> r.env]

CycleIter_next_internal(self, env) ==
    LET r == next(self.iter, env)
        \* _iter.~IterType(); new (&_iter) IterType(_originalIter); return _iter.next();
        again == next(self.originalIter, r.env)
    IN IF IsSome(r.val)
       THEN [it |-> [self EXCEPT !.iter = r.it, !.iterIsEmpty = FALSE],
             val |-> r.val, env |-> r.env]
       ELSE IF self.iterIsEmpty
            THEN [it |-> [self EXCEPT !.iter = r.it], val |-> None, env |-> r.env]
            ELSE [it |-> [self EXCEPT !.iter = again.it], val |-> again.val,
                  env |-> again.env]

\* The static dispatch concrete_iter()->next_internal().
next_internal(self, env) ==
    CASE self.kind = "CppIteratorWrapper" -> CppIteratorWrapper_next_internal(self, env)
      [] self.kind = "GeneratorIter" -> GeneratorIter_next_internal(self, env)
      [] self.kind = "FiniteGeneratorIter" -> FiniteGeneratorIter_next_internal(self, env)
      [] self.kind = "EmptyIter" -> EmptyIter_next_internal(self, env)
      [] self.kind = "StepByIter" -> StepByIter_next_internal(self, env)
      [] self.kind = "ChainIter" -> ChainIter_next_internal(self, env)
      [] self.kind = "ZipIter" -> ZipIter_next_internal(self, env)
      [] self.kind = "IntersperseWithIter" -> IntersperseWithIter_next_internal(self, env)
      [] self.kind = "MapIter" -> MapIter_next_internal(self, env)
      [] self.kind = "FilterIter" -> FilterIter_next_internal(self, env)
      [] self.kind = "FilterMapIter" -> FilterMapIter_next_internal(self, env)
      [] self.kind = "PeekableIter" -> PeekableIter_next_internal(self, env)
      [] self.kind = "SkipWhileIter" -> SkipWhileIter_next_internal(self, env)
      [] self.kind = "TakeWhileIter" -> TakeWhileIter_next_internal(self, env)
      [] self.kind = "FlattenIter" -> FlattenIter_next_internal(self, env)
      [] self.kind = "InspectIter" -> InspectIter_next_internal(self, env)
      [] self.kind = "CycleIter" -> CycleIter_next_internal(self, env)
      [] self.kind = "Reference" -> Reference_next_internal(self, env)

\* IterBase::next: [it, val, env].  It also appends the result to the
\* object's observation log.
next(self, env) ==
    LET r == next_internal(self, env)
    IN [it |-> [r.it EXCEPT !.log = Append(self.log, r.val)], val |-> r.val,
        env |-> r.env]

\* ----------------------------------------------- IterBase: the comparisons
\* The float that compares neither equal to, less than nor greater than any
\* float (std::numeric_limits<float>::quiet_NaN()); it is no item of any
\* integer sequence of the model.
NaN == -1000

\* operator==, operator< and operator> of the item type.
Equal(a, b) == a # NaN /\ b # NaN /\ a = b
Less(a, b) == a # NaN /\ b # NaN /\ a < b
Greater(a, b) == a # NaN /\ b # NaN /\ a > b

\* detail::compare
compare(a, b) == IF Less(a, b) THEN -1 ELSE IF Greater(a, b) THEN 1 ELSE 0

\* detail::compare_partial
compare_partial(a, b) ==
    IF Equal(a, b) THEN Some(0)
    ELSE IF Less(a, b) THEN Some(-1)
    ELSE IF Greater(a, b) THEN Some(1)
    ELSE None

\* Conversion of an integer to char (8 bits, signed).
ToChar(v) == ((v + 128) % 256) - 128

\* detail::compare_reverse
compare_reverse(a, b) == compare(b, a)

\* The comparison functions handed to cmp_by, min_by, max_by and
\* is_sorted_by: detail::compare, detail::compare_reverse and user lambdas
\* returning an int, `a - b` and `b - a` as in the tests, and the difference
\* of the halves, for which different items compare equal.
Difference == [f |-> "Difference"]
DifferenceReverse == [f |-> "DifferenceReverse"]
HalfDifference == [f |-> "HalfDifference"]

CallComparer(c, a, b) ==
    CASE c.f = "compare" -> compare(a, b)
      [] c.f = "compare_reverse" -> compare_reverse(a, b)
      [] c.f = "Difference" -> a - b
      [] c.f = "DifferenceReverse" -> b - a
      [] c.f = "HalfDifference" -> (a \div 2) - (b \div 2)

\* A user lambda handed to partial_cmp_by: no value when one of the items
\* is NaN, else their difference as an std::optional<int>.
PartialDifference == [f |-> "PartialDifference"]

\* The comparison functions handed to partial_cmp_by: compare_partial, a user
\* lambda, or cmp_by's lambda, which returns the result of the comparison
\* function as an std::optional<OutType> (OutType is int where cmp_by is
\* called in the model).
CallPartialComparison(c, a, b) ==
    CASE c.f = "compare_partial" -> compare_partial(a, b)
      [] c.f = "PartialDifference" ->
           IF a = NaN \/ b = NaN THEN None ELSE Some(a - b)
      [] c.f = "cmp_by_lambda" -> Some(CallComparer(c.comparisonFunction, a, b))

RECURSIVE partial_cmp_by(_, _, _, _)

\* The result of partial_cmp_by: both iterators as advanced, the value
\* returned and the world.
CmpResult(thisValue, otherValue, v) ==
    [it |-> thisValue.it, other |-> otherValue.it, ret |-> v, env |-> otherValue.env]

\* std::optional<char> compared = partialComparisonFunction(*thisValue, *otherValue)
Compared(partialComparisonFunction, a, b) ==
    LET result == CallPartialComparison(partialComparisonFunction, a, b)
    IN IF IsSome(result) THEN Some(ToChar(Get(result))) ELSE None

\* Faulty variant: a sequence that ends first compares equal.
partial_cmp_by_body_PrefixEqual(thisValue, otherValue, partialComparisonFunction) ==
    IF IsNone(thisValue.val) \/ IsNone(otherValue.val)
    THEN CmpResult(thisValue, otherValue, Some(0))
    ELSE LET compared == Compared(partialComparisonFunction,
                                  Get(thisValue.val), Get(otherValue.val))
         IN IF IsNone(compared) \/ Get(compared) # 0
            THEN CmpResult(thisValue, otherValue, compared)
            ELSE partial_cmp_by(thisValue.it, otherValue.it,
                                partialComparisonFunction, otherValue.env)

\* The body of partial_cmp_by's loop once thisValue and otherValue have been
\* fetched.
partial_cmp_by_body(thisValue, otherValue, partialComparisonFunction) ==
    IF IsNone(thisValue.val)
    THEN IF IsSome(otherValue.val)
         THEN CmpResult(thisValue, otherValue, Some(-1))
         ELSE CmpResult(thisValue, otherValue, Some(0))
    ELSE IF IsNone(otherValue.val)
         THEN CmpResult(thisValue, otherValue, Some(1))
         ELSE LET compared == Compared(partialComparisonFunction,
                                       Get(thisValue.val), Get(otherValue.val))
              IN IF IsNone(compared) \/ Get(compared) # 0
                 THEN CmpResult(thisValue, otherValue, compared)
                 ELSE partial_cmp_by(thisValue.it, otherValue.it,
                                     partialComparisonFunction, otherValue.env)

\* const OutType* otherValue = other.next();
partial_cmp_by_other(thisValue, other, partialComparisonFunction) ==
    partial_cmp_by_body(thisValue, next(other, thisValue.env), partialComparisonFunction)

\* IterBase::partial_cmp_by: [it, other, ret, env]; it fetches thisValue, then
\* otherValue, then decides or goes on.
partial_cmp_by(self, other, partialComparisonFunction, env) ==
    partial_cmp_by_other(next(self, env), other, partialComparisonFunction)

\* IterBase::partial_cmp
partial_cmp(self, other, env) ==
    partial_cmp_by(self, other, [f |-> "compare_partial"], env)

\* IterBase::cmp_by: the char inside the result of partial_cmp_by.
cmp_by(self, other, comparisonFunction, env) ==
    [partial_cmp_by(self, other,
                    [f |-> "cmp_by_lambda", comparisonFunction |-> comparisonFunction],
                    env)
       EXCEPT !.ret = Get(@)]

\* IterBase::cmp
cmp(self, other, env) == cmp_by(self, other, [f |-> "compare"], env)

\* IterBase::lt, le, gt, ge: `cmp && *cmp < 0` and so on.
lt(self, other, env) ==
    [partial_cmp(self, other, env) EXCEPT !.ret = IsSome(@) /\ Get(@) < 0]

\* Faulty variant: an undefined comparison counts as equal.
le_IncomparableEqual(self, other, env) ==
    [partial_cmp(self, other, env) EXCEPT !.ret = IsNone(@) \/ Get(@) <= 0]

le(self, other, env) ==
    [partial_cmp(self, other, env) EXCEPT !.ret = IsSome(@) /\ Get(@) <= 0]

gt(self, other, env) ==
    [partial_cmp(self, other, env) EXCEPT !.ret = IsSome(@) /\ Get(@) > 0]

ge(self, other, env) ==
    [partial_cmp(self, other, env) EXCEPT !.ret = IsSome(@) /\ Get(@) >= 0]

\* The remainder of the division by two as C++ computes it (the sign of the
\* dividend).
Rem2(v) == IF v >= 0 THEN v % 2 ELSE -((-v) % 2)

\* The equality comparers handed to eq_by: `a == b` (the lambda of eq and
\* of the tests) and `a % 2 == b % 2` as in the tests.
EqualItems == [f |-> "EqualItems"]
EqualByParity == [f |-> "EqualByParity"]

CallEqualityComparer(c, a, b) ==
    CASE c.f = "EqualItems" -> Equal(a, b)
      [] c.f = "EqualByParity" -> Rem2(a) = Rem2(b)

\* IterBase::eq_by: [it, other, ret, env]; the body of the loop once
\* thisValue and otherValue have been fetched.
RECURSIVE eq_by(_, _, _, _)
eq_by_body(thisValue, otherValue, equalityComparerFunction) ==
    IF IsNone(thisValue.val)
    THEN CmpResult(thisValue, otherValue, IsNone(otherValue.val))
    ELSE IF IsNone(otherValue.val)
         THEN CmpResult(thisValue, otherValue, FALSE)
         ELSE IF ~CallEqualityComparer(equalityComparerFunction,
                                       Get(thisValue.val), Get(otherValue.val))
              THEN CmpResult(thisValue, otherValue, FALSE)
              ELSE eq_by(thisValue.it, otherValue.it, equalityComparerFunction,
                         otherValue.env)

eq_by_other(thisValue, other, equalityComparerFunction) ==
    eq_by_body(thisValue, next(other, thisValue.env), equalityComparerFunction)

eq_by(self, other, equalityComparerFunction, env) ==
    eq_by_other(next(self, env), other, equalityComparerFunction)

\* IterBase::eq, IterBase::ne
eq(self, other, env) == eq_by(self, other, EqualItems, env)
ne(self, other, env) == [eq(self, other, env) EXCEPT !.ret = ~@]

\* ------------------------------------------------- IterBase: the consumers
\* Every consumer returns [it, ret, env]: the pipeline as advanced, the value
\* returned and the world.  The predicate handed to all, any, find and
\* position and the function handed to fold and reduce are user lambdas
\* that count their calls in env.cons.
CallConsumerPredicate(p, v, env) ==
    [ret |-> IF p.f = "IsEven" THEN v % 2 = 0 ELSE v < p.k,
     env |-> [env EXCEPT !.cons = @ + 1]]

\* The functions handed to fold and reduce: acc + current as in the tests,
\* and 2 * acc + current, which depends on the order of the calls.
Sum == [f |-> "Sum"]
DoubleAndAdd == [f |-> "DoubleAndAdd"]

CallReducer(f, acc, current, env) ==
    [ret |-> IF f.f = "Sum" THEN acc + current ELSE 2 * acc + current,
     env |-> [env EXCEPT !.cons = @ + 1]]

\* IterBase::nth: the loop with its counter currentIdx.
RECURSIVE nth_loop(_, _, _, _)

\* Faulty variant: the counter is incremented before it is compared, so the
\* loop stops one item early.
nth_loop_PreIncrement(self, idx, currentIdx, env) ==
    LET value == next(self, env)
    IN IF IsNone(value.val)
       THEN [it |-> value.it, ret |-> None, env |-> value.env]
       ELSE IF currentIdx + 1 >= idx
            THEN [it |-> value.it, ret |-> value.val, env |-> value.env]
            ELSE nth_loop(value.it, idx, currentIdx + 1, value.env)

nth_loop(self, idx, currentIdx, env) ==
    LET value == next(self, env)
    IN IF IsNone(value.val)
       THEN [it |-> value.it, ret |-> None, env |-> value.env]
       ELSE IF currentIdx = idx
            THEN [it |-> value.it, ret |-> value.val, env |-> value.env]
            ELSE nth_loop(value.it, idx, currentIdx + 1, value.env)

nth(self, idx, env) == nth_loop(self, idx, 0, env)

\* IterBase::all: all_value is the body of the loop once next() has
\* returned value.
RECURSIVE all(_, _, _)

\* Faulty variant: the loop goes on after the predicate has returned false.
all_value_Drains(value, predicate) ==
    IF IsNone(value.val)
    THEN [it |-> value.it, ret |-> TRUE, env |-> value.env]
    ELSE LET p == CallConsumerPredicate(predicate, Get(value.val), value.env)
         IN IF ~p.ret
            THEN [all(value.it, predicate, p.env) EXCEPT !.ret = FALSE]
            ELSE all(value.it, predicate, p.env)

all_value(value, predicate) ==
    IF IsNone(value.val)
    THEN [it |-> value.it, ret |-> TRUE, env |-> value.env]
    ELSE LET p == CallConsumerPredicate(predicate, Get(value.val), value.env)
         IN IF ~p.ret
            THEN [it |-> value.it, ret |-> FALSE, env |-> p.env]
            ELSE all(value.it, predicate, p.env)

all(self, predicate, env) == all_value(next(self, env), predicate)

\* IterBase::any
RECURSIVE any(_, _, _)
any_value(value, predicate) ==
    IF IsNone(value.val)
    THEN [it |-> value.it, ret |-> FALSE, env |-> value.env]
    ELSE LET p == CallConsumerPredicate(predicate, Get(value.val), value.env)
         IN IF p.ret
            THEN [it |-> value.it, ret |-> TRUE, env |-> p.env]
            ELSE any(value.it, predicate, p.env)

any(self, predicate, env) == any_value(next(self, env), predicate)

\* IterBase::find
RECURSIVE find(_, _, _)
find_value(value, predicate) ==
    IF IsNone(value.val)
    THEN [it |-> value.it, ret |-> None, env |-> value.env]
    ELSE LET p == CallConsumerPredicate(predicate, Get(value.val), value.env)
         IN IF p.ret
            THEN [it |-> value.it, ret |-> value.val, env |-> p.env]
            ELSE find(value.it, predicate, p.env)

find(self, predicate, env) == find_value(next(self, env), predicate)

\* IterBase::position: the loop with its counter pos.
RECURSIVE position_loop(_, _, _, _)

\* Faulty variant: the index returned counts from one.
position_value_OneBased(value, predicate, pos) ==
    IF IsNone(value.val)
    THEN [it |-> value.it, ret |-> None, env |-> value.env]
    ELSE LET p == CallConsumerPredicate(predicate, Get(value.val), value.env)
         IN IF p.ret
            THEN [it |-> value.it, ret |-> Some(pos + 1), env |-> p.env]
            ELSE position_loop(value.it, predicate, pos + 1, p.env)

position_value(value, predicate, pos) ==
    IF IsNone(value.val)
    THEN [it |-> value.it, ret |-> None, env |-> value.env]
    ELSE LET p == CallConsumerPredicate(predicate, Get(value.val), value.env)
         IN IF p.ret
            THEN [it |-> value.it, ret |-> Some(pos), env |-> p.env]
            ELSE position_loop(value.it, predicate, pos + 1, p.env)

position_loop(self, predicate, pos, env) ==
    position_value(next(self, env), predicate, pos)

position(self, predicate, env) == position_loop(self, predicate, 0, env)

\* IterBase::min_by: min_by_first is the body once the first next() has
\* returned, min_by_value the body of the loop once next() has returned
\* value.
RECURSIVE min_by_loop(_, _, _, _)
min_by_value(value, comparer, minValue) ==
    IF IsNone(value.val)
    THEN [it |-> value.it, ret |-> Some(minValue), env |-> value.env]
    ELSE IF CallComparer(comparer, Get(value.val), minValue) < 0
         THEN min_by_loop(value.it, comparer, Get(value.val), value.env)
         ELSE min_by_loop(value.it, comparer, minValue, value.env)

min_by_loop(self, comparer, minValue, env) ==
    min_by_value(next(self, env), comparer, minValue)

min_by_first(first, comparer) ==
    IF IsNone(first.val)
    THEN [it |-> first.it, ret |-> None, env |-> first.env]
    ELSE min_by_loop(first.it, comparer, Get(first.val), first.env)

min_by(self, comparer, env) == min_by_first(next(self, env), comparer)

\* IterBase::min
min(self, env) == min_by(self, [f |-> "compare"], env)

\* IterBase::max_by
RECURSIVE max_by_loop(_, _, _, _)

\* Faulty variant: of several maximal items the last one wins.
max_by_value_LastWins(value, comparer, maxValue) ==
    IF IsNone(value.val)
    THEN [it |-> value.it, ret |-> Some(maxValue), env |-> value.env]
    ELSE IF CallComparer(comparer, Get(value.val), maxValue) >= 0
         THEN max_by_loop(value.it, comparer, Get(value.val), value.env)
         ELSE max_by_loop(value.it, comparer, maxValue, value.env)

max_by_value(value, comparer, maxValue) ==
    IF IsNone(value.val)
    THEN [it |-> value.it, ret |-> Some(maxValue), env |-> value.env]
    ELSE IF CallComparer(comparer, Get(value.val), maxValue) > 0
         THEN max_by_loop(value.it, comparer, Get(value.val), value.env)
         ELSE max_by_loop(value.it, comparer, maxValue, value.env)

max_by_loop(self, comparer, maxValue, env) ==
    max_by_value(next(self, env), comparer, maxValue)

max_by_first(first, comparer) ==
    IF IsNone(first.val)
    THEN [it |-> first.it, ret |-> None, env |-> first.env]
    ELSE max_by_loop(first.it, comparer, Get(first.val), first.env)

max_by(self, comparer, env) == max_by_first(next(self, env), comparer)

\* IterBase::max
max(self, env) == max_by(self, [f |-> "compare"], env)

\* IterBase::is_sorted_by: the loop over the items after the first.
RECURSIVE is_sorted_by_loop(_, _, _, _)

\* Faulty variant: equal neighbours count as out of order.
is_sorted_by_value_Strict(value, comparer, prev) ==
    IF IsNone(value.val)
    THEN [it |-> value.it, ret |-> TRUE, env |-> value.env]
    ELSE IF CallComparer(comparer, prev, Get(value.val)) >= 0
         THEN [it |-> value.it, ret |-> FALSE, env |-> value.env]
         ELSE is_sorted_by_loop(value.it, comparer, Get(value.val), value.env)

is_sorted_by_value(value, comparer, prev) ==
    IF IsNone(value.val)
    THEN [it |-> value.it, ret |-> TRUE, env |-> value.env]
    ELSE IF CallComparer(comparer, prev, Get(value.val)) > 0
         THEN [it |-> value.it, ret |-> FALSE, env |-> value.env]
         ELSE is_sorted_by_loop(value.it, comparer, Get(value.val), value.env)

is_sorted_by_loop(self, comparer, prev, env) ==
    is_sorted_by_value(next(self, env), comparer, prev)

is_sorted_by_first(first, comparer) ==
    IF IsNone(first.val)
    THEN [it |-> first.it, ret |-> TRUE, env |-> first.env]
    ELSE is_sorted_by_loop(first.it, comparer, Get(first.val), first.env)

is_sorted_by(self, comparer, env) == is_sorted_by_first(next(self, env), comparer)

\* IterBase::is_sorted_ascending, is_sorted_descending
is_sorted_ascending(self, env) == is_sorted_by(self, [f |-> "compare"], env)
is_sorted_descending(self, env) == is_sorted_by(self, [f |-> "compare_reverse"], env)

\* IterBase::fold<T>: fold_value is the body of the loop once next() has
\* returned value.  The accumulator has the type T of initialValue, not the
\* item type: what the function returns is converted to T in every round.
RECURSIVE fold(_, _, _, _, _)

\* The next round of the loop, r being what the function returned.
fold_reduced(self, T, r, foldFunction) ==
    fold(self, T, Convert(T, r.ret), foldFunction, r.env)

\* Faulty variant: the function is called with the item first and the
\* accumulator second.
fold_value_ArgumentsSwapped(value, T, initialValue, foldFunction) ==
    IF IsNone(value.val)
    THEN [it |-> value.it, ret |-> initialValue, env |-> value.env]
    ELSE fold_reduced(value.it, T,
                      CallReducer(foldFunction, Get(value.val), initialValue, value.env),
                      foldFunction)

fold_value(value, T, initialValue, foldFunction) ==
    IF IsNone(value.val)
    THEN [it |-> value.it, ret |-> initialValue, env |-> value.env]
    ELSE fold_reduced(value.it, T,
                      CallReducer(foldFunction, initialValue, Get(value.val), value.env),
                      foldFunction)

fold(self, T, initialValue, foldFunction, env) ==
    fold_value(next(self, env), T, initialValue, foldFunction)

\* IterBase::reduce: the loop over the items after the first.  The
\* accumulator is `OutType reduced`: what the function returns is converted
\* to the item type of the pipeline in every round.
RECURSIVE reduce_loop(_, _, _, _)
reduce_reduced(self, r, reduceFunction) ==
    reduce_loop(self, Convert(OutType(self), r.ret), reduceFunction, r.env)
reduce_value(value, reduced, reduceFunction) ==
    IF IsNone(value.val)
    THEN [it |-> value.it, ret |-> Some(reduced), env |-> value.env]
    ELSE reduce_reduced(value.it,
                        CallReducer(reduceFunction, reduced, Get(value.val), value.env),
                        reduceFunction)

reduce_loop(self, reduced, reduceFunction, env) ==
    reduce_value(next(self, env), reduced, reduceFunction)

reduce_first(first, reduceFunction) ==
    IF IsNone(first.val)
    THEN [it |-> first.it, ret |-> None, env |-> first.env]
    ELSE reduce_loop(first.it, Get(first.val), reduceFunction, first.env)

reduce(self, reduceFunction, env) == reduce_first(next(self, env), reduceFunction)

\* add_to_collection: push_back
add_to_collection(collection, value) == Append(collection, value)

\* The callbacks handed to for_each.  Each is a lambda with captured state:
\* the Recorder appends the item it is called with to the list it captured;
\* the lambda of partition adds the item to the first of the two captured
\* collections when the predicate returns false and to the second when it
\* returns true.
Recorder == [f |-> "Recorder"]
PartitionLambda(predicate) == [f |-> "PartitionLambda", predicate |-> predicate]

\* Faulty variant: the items for which the predicate returns true go to the
\* first collection.
CallPartitionLambda_Swapped(predicate, value, captured, env) ==
    [captured |-> IF CallConsumerPredicate(predicate, value, env).ret
                  THEN [captured EXCEPT !.first = add_to_collection(@, value)]
                  ELSE [captured EXCEPT !.second = add_to_collection(@, value)],
     env |-> CallConsumerPredicate(predicate, value, env).env]

CallPartitionLambda(predicate, value, captured, env) ==
    [captured |-> IF CallConsumerPredicate(predicate, value, env).ret
                  THEN [captured EXCEPT !.second = add_to_collection(@, value)]
                  ELSE [captured EXCEPT !.first = add_to_collection(@, value)],
     env |-> CallConsumerPredicate(predicate, value, env).env]

CallCallback(callback, value, captured, env) ==
    IF callback.f = "Recorder"
    THEN [captured |-> Append(captured, value), env |-> [env EXCEPT !.cons = @ + 1]]
    ELSE CallPartitionLambda(callback.predicate, value, captured, env)

\* IterBase::for_each.  ret is the captured state of the callback after the
\* last call.
RECURSIVE for_each_loop(_, _, _, _)
for_each_called(self, callback, c) == for_each_loop(self, callback, c.captured, c.env)

for_each_value(value, callback, captured) ==
    IF IsNone(value.val)
    THEN [it |-> value.it, ret |-> captured, env |-> value.env]
    ELSE for_each_called(value.it, callback,
                         CallCallback(callback, Get(value.val), captured, value.env))

for_each_loop(self, callback, captured, env) ==
    for_each_value(next(self, env), callback, captured)

for_each(self, callback, captured, env) == for_each_loop(self, callback, captured, env)

\* IterBase::collect: the loop with the collection coll.
RECURSIVE collect_loop(_, _, _)

\* Faulty variant: the items are added at the front.
collect_value_Prepends(value, coll) ==
    IF IsNone(value.val)
    THEN [it |-> value.it, ret |-> coll, env |-> value.env]
    ELSE collect_loop(value.it, <<Get(value.val)>> \o coll, value.env)

collect_value(value, coll) ==
    IF IsNone(value.val)
    THEN [it |-> value.it, ret |-> coll, env |-> value.env]
    ELSE collect_loop(value.it, add_to_collection(coll, Get(value.val)), value.env)

collect_loop(self, coll, env) == collect_value(next(self, env), coll)

collect(self, env) == collect_loop(self, <<>>, env)

\* IterBase::partition
partition(self, predicate, env) ==
    for_each(self, PartitionLambda(predicate), [first |-> <<>>, second |-> <<>>], env)

\* IterBase::count: the loop with its counter.
RECURSIVE count_loop(_, _, _)
count_value(value, counted) ==
    IF IsNone(value.val)
    THEN [it |-> value.it, ret |-> counted, env |-> value.env]
    ELSE count_loop(value.it, counted + 1, value.env)

count_loop(self, counted, env) == count_value(next(self, env), counted)

count(self, env) == count_loop(self, 0, env)

\* IterBase::collect_with_size_hint: collect after coll.reserve(sizeHint),
\* which adds no item to the collection.
collect_with_size_hint(self, sizeHint, env) == collect_loop(self, <<>>, env)

\* IterBase::last: the loop with the copy lastItem of the latest item.
RECURSIVE last_loop(_, _, _)
last_value(value, lastItem) ==
    IF IsNone(value.val)
    THEN [it |-> value.it, ret |-> Some(lastItem), env |-> value.env]
    ELSE last_loop(value.it, Get(value.val), value.env)

last_loop(self, lastItem, env) == last_value(next(self, env), lastItem)

last_first(first) ==
    IF IsNone(first.val)
    THEN [it |-> first.it, ret |-> None, env |-> first.env]
    ELSE last_loop(first.it, Get(first.val), first.env)

last(self, env) == last_first(next(self, env))

\* IterBase::sum<T> and IterBase::product<T>: the loops with their
\* accumulator of type T, which is the OutType of the pipeline unless the
\* caller names another type.
RECURSIVE sum_loop(_, _, _, _)
sum_value(value, T, total) ==
    IF IsNone(value.val)
    THEN [it |-> value.it, ret |-> total, env |-> value.env]
    ELSE sum_loop(value.it, T, Convert(T, total + Get(value.val)), value.env)

sum_loop(self, T, total, env) == sum_value(next(self, env), T, total)

sum(self, T, env) == sum_loop(self, T, 0, env)

RECURSIVE product_loop(_, _, _, _)
product_value(value, T, total) ==
    IF IsNone(value.val)
    THEN [it |-> value.it, ret |-> total, env |-> value.env]
    ELSE product_loop(value.it, T, Convert(T, total * Get(value.val)), value.env)

product_loop(self, T, total, env) == product_value(next(self, env), T, total)

product(self, T, env) == product_loop(self, T, 1, env)

\* -------------------------------------------------------- creator functions
iter(collection) == CppIteratorWrapper(collection)
infinite_generator(generatorFunction) == GeneratorIter(generatorFunction)
finite_generator(generatorFunction) == FiniteGeneratorIter(generatorFunction)
\* (the parameters min and max of the range functions are start and end here)
infinite_range(start, step) ==
    infinite_generator(InfiniteRangeGenerator("int8_t", start, step))
range(start, end, step) == finite_generator(FiniteRangeGenerator(start, end, step, FALSE))
range_inclusive(start, end, step) ==
    finite_generator(FiniteRangeGenerator(start, end, step, TRUE))
empty == EmptyIter
once(value) == finite_generator(YieldOnce(value))
once_with(value) == finite_generator(YieldOnceWith(value))
repeat(value) == infinite_generator(YieldValue(value))
successors(initialValue, limit) ==
    finite_generator(SuccessorCalculator(initialValue, limit))

\* ------------------------------------------------------------------- inputs
\* Collections of integers handed to iter().
Colls == UNION {[1..l -> {1, 2}] : l \in 0..MaxLen}

\* Scripts of by-reference generator lambdas; the second returns values again
\* after it has returned "no value".
Scripts == {<<Some(1), Some(2)>>, <<Some(1), None, None, Some(2)>>}

\* The sequences a pipeline of integers is compared with.
OtherIters == {iter(c) : c \in Colls} \cup {range(0, MaxRange, 1)}

\* Collections of floats, NaN among them, and collections of integers whose
\* differences do not all fit a char.
FloatColls == UNION {[1..l -> {1, 2, NaN}] : l \in 0..MaxLen}
WideColls == UNION {[1..l -> {0, 1, 128, 256}] : l \in 0..MaxLen}

\* Producers of integers.
IntProducers ==
    {iter(c) : c \in Colls}
    \cup {range(0, MaxRange, 1), range_inclusive(1, MaxRange, 2), range(MaxRange, 0, 1)}
    \cup {infinite_range(0, 1), repeat(1)}
    \cup {finite_generator(UserGenerator(s)) : s \in Scripts}
    \cup {finite_generator(FiniteCountingGenerator(1, 3))}
    \cup {once(1), once_with(2), empty}
    \cup {successors(Some(1), MaxRange), successors(None, MaxRange)}

\* Producers of iterators (collections of ranges), for flatten.
IterProducers ==
    {iter(<<>>), iter(<<range(0, 0, 1)>>),
     iter(<<range(0, 2, 1), range(0, 0, 1), range(1, MaxRange, 2)>>)}

\* The second iterator handed to chain and zip.
SecondIters == {range(5, 7, 1), iter(<<>>)}

StepSizes == -1..MaxStep
Counts == 0..MaxCount

\* The separator handed to intersperse (an int that is no int8_t), and the
\* value of the counter that the lambda handed to intersperse_with
\* decrements (its second result is no int8_t).
Separators == {200}
SeparatorCounters == {IntMin + 1}

\* --------------------------------------------- IterBase: the host-loop bridge
\* IterBase::CppIterator holds a pointer to the pipeline ("this", or
\* "nullptr") and the current item.  The pipeline it points to is passed to
\* the operations that advance it and returned as advanced:
\* [cpp, it, env].
\* CppIterator(): the sentinel.
CppIterator_default == [iter |-> "nullptr", value |-> None]

\* Faulty variant: the pointer is kept when the pipeline reports exhaustion.
CppIterator_step_KeepsPointer(self, pipeline, env) ==
    IF self.iter = "nullptr"
    THEN [cpp |-> self, it |-> pipeline, env |-> env]
    ELSE LET first == next(pipeline, env)
         IN [cpp |-> [self EXCEPT !.value = first.val], it |-> first.it, env |-> first.env]

\* CppIterator::step
CppIterator_step(self, pipeline, env) ==
    IF self.iter = "nullptr"
    THEN [cpp |-> self, it |-> pipeline, env |-> env]
    ELSE LET first == next(pipeline, env)
         IN IF IsSome(first.val)
            THEN [cpp |-> [self EXCEPT !.value = first.val],
                  it |-> first.it, env |-> first.env]
            ELSE [cpp |-> [iter |-> "nullptr", value |-> None],
                  it |-> first.it, env |-> first.env]

\* CppIterator(IterBase* iter)
CppIterator(pipeline, env) ==
    CppIterator_step([iter |-> "this", value |-> None], pipeline, env)

\* CppIterator::is_done, operator==, operator++
is_done(self) == IsNone(self.value)
CppIterator_equal(a, b) == a.iter = b.iter /\ is_done(a) /\ is_done(b)
CppIterator_increment(self, pipeline, env) == CppIterator_step(self, pipeline, env)

\* CppIterator::operator++(int): CppIterator prev = *this; step(); return prev;
\* [cpp, prev, it, env]
CppIterator_post_increment(self, pipeline, env) ==
    [prev |-> self] @@ CppIterator_step(self, pipeline, env)

\* IterBase::begin, IterBase::end
begin(self, env) == CppIterator(self, env)
end == CppIterator_default

\* ------------------------------------ next_internal, one loop iteration a step
\* FilterIter, FilterMapIter, SkipWhileIter and FlattenIter loop inside one
\* next() call.  Here the call is taken apart: the code before the loop
\* (next_internal_entry: [it, pc]) and one iteration of the loop
\* (next_internal_iteration: [it, val, env, returned]), where val is the
\* result when the iteration returned and else the item it dropped.
\* pc is "loop" (in the while loop), "pass" (SkipWhileIter's final
\* return _iter.next()) or "none" (FlattenIter's early return nullptr).
next_internal_entry(self) ==
    CASE self.kind = "SkipWhileIter" ->
           IF ~self.done
           THEN [it |-> [self EXCEPT !.done = TRUE], pc |-> "loop"]
           ELSE [it |-> self, pc |-> "pass"]
      [] self.kind = "FlattenIter" ->
           [it |-> self, pc |-> IF IsNone(self.innerIter) THEN "none" ELSE "loop"]
      [] OTHER -> [it |-> self, pc |-> "loop"]

\* Faulty variant: the loop tests the predicate only, so it goes on when the
\* upstream reports exhaustion.
FilterIter_iteration_IgnoresExhaustion(self, env) ==
    LET tested(current, c) ==
            IF IsNone(current.val)
            THEN [it |-> [self EXCEPT !.iter = current.it], val |-> None,
                  env |-> current.env, returned |-> FALSE]
            ELSE [it |-> [self EXCEPT !.iter = current.it, !.filterFunction = c.fn],
                  val |-> current.val, env |-> c.env, returned |-> c.ret]
        pulled(current) ==
            tested(current,
                   CallPredicate(self.filterFunction, Get(current.val), current.env))
    IN pulled(next(self.iter, env))

\* while (const InType* current = _iter.next()) { if (f(*current)) return current; } return nullptr;
FilterIter_iteration(self, env) ==
    LET tested(current, c) ==
            IF IsNone(current.val)
            THEN [it |-> [self EXCEPT !.iter = current.it], val |-> None,
                  env |-> current.env, returned |-> TRUE]
            ELSE [it |-> [self EXCEPT !.iter = current.it, !.filterFunction = c.fn],
                  val |-> current.val, env |-> c.env, returned |-> c.ret]
        pulled(current) ==
            tested(current,
                   CallPredicate(self.filterFunction, Get(current.val), current.env))
    IN pulled(next(self.iter, env))

FilterMapIter_iteration(self, env) ==
    LET mapped(current, c) ==
            IF IsNone(current.val)
            THEN [it |-> [self EXCEPT !.iter = current.it], val |-> None,
                  env |-> current.env, returned |-> TRUE]
            ELSE [it |-> [self EXCEPT !.iter = current.it],
                  val |-> IF IsSome(c.ret) THEN c.ret ELSE current.val,
                  env |-> c.env, returned |-> IsSome(c.ret)]
        pulled(current) ==
            mapped(current,
                   CallFilterMap(self.filterMapFunction, Get(current.val), current.env))
    IN pulled(next(self.iter, env))

\* while (const OutType* value = _iter.next()) { if (!_predicate(*value)) return value; } return nullptr;
SkipWhileIter_iteration(self, env) ==
    LET tested(value, c) ==
            IF IsNone(value.val)
            THEN [it |-> [self EXCEPT !.iter = value.it], val |-> None,
                  env |-> value.env, returned |-> TRUE]
            ELSE [it |-> [self EXCEPT !.iter = value.it, !.predicate = c.fn],
                  val |-> value.val, env |-> c.env, returned |-> ~c.ret]
        pulled(value) ==
            tested(value, CallPredicate(self.predicate, Get(value.val), value.env))
    IN pulled(next(self.iter, env))

\* while (true) { if (value = _innerIter->next()) return value; else if (!advance()) return nullptr; }
FlattenIter_iteration(self, env) ==
    LET advanced(value, a) ==
            IF IsSome(value.val)
            THEN [it |-> [self EXCEPT !.innerIter = Some(value.it)], val |-> value.val,
                  env |-> value.env, returned |-> TRUE]
            ELSE [it |-> a.it, val |-> None, env |-> a.env, returned |-> ~a.ok]
        pulled(value) ==
            advanced(value,
                     FlattenIter_advance([self EXCEPT !.innerIter = Some(value.it)],
                                         value.env))
    IN pulled(next(Get(self.innerIter), env))

next_internal_iteration(self, pc, env) ==
    LET passed(value) ==
            [it |-> [self EXCEPT !.iter = value.it], val |-> value.val,
             env |-> value.env, returned |-> TRUE]
    IN CASE pc = "none" -> [it |-> self, val |-> None, env |-> env, returned |-> TRUE]
         [] pc = "pass" -> passed(next(self.iter, env))
         [] pc = "loop" /\ self.kind = "FilterIter" -> FilterIter_iteration(self, env)
         [] pc = "loop" /\ self.kind = "FilterMapIter" -> FilterMapIter_iteration(self, env)
         [] pc = "loop" /\ self.kind = "SkipWhileIter" -> SkipWhileIter_iteration(self, env)
         [] pc = "loop" /\ self.kind = "FlattenIter" -> FlattenIter_iteration(self, env)

\* ---------------------------------------------------------- static analysis
IsProducer(i) ==
    i.kind \in {"CppIteratorWrapper", "GeneratorIter", "FiniteGeneratorIter", "EmptyIter",
                "Reference"}

\* Number of adaptor stages of a pipeline.
RECURSIVE Stages(_)
Stages(i) ==
    IF IsProducer(i) THEN 0
    ELSE IF i.kind = "ChainIter"
         THEN 1 + (IF Stages(i.iter) > Stages(i.chainedIter)
                   THEN Stages(i.iter) ELSE Stages(i.chainedIter))
    ELSE IF i.kind = "ZipIter"
         THEN 1 + (IF Stages(i.iter) > Stages(i.zippedIter)
                   THEN Stages(i.iter) ELSE Stages(i.zippedIter))
    ELSE IF i.kind = "CycleIter" THEN 1 + Stages(i.originalIter)
    ELSE 1 + Stages(i.iter)

\* A pipeline that is exhausted after finitely many items whatever is pulled
\* (a sufficient syntactic test).  filter, filter_map, skip_while and flatten
\* loop inside one next() call until an item passes, so the caller hands
\* them finite pipelines only.
RECURSIVE IsFinite(_)
IsFinite(i) ==
    CASE i.kind = "GeneratorIter" -> FALSE
      [] i.kind = "CycleIter" -> FALSE
      [] i.kind \in {"CppIteratorWrapper", "FiniteGeneratorIter", "EmptyIter"} -> TRUE
      [] i.kind = "ChainIter" -> IsFinite(i.iter) /\ IsFinite(i.chainedIter)
      [] i.kind = "ZipIter" -> IsFinite(i.iter) \/ IsFinite(i.zippedIter)
      [] i.kind = "TakeWhileIter" -> i.predicate.f = "Counter" \/ IsFinite(i.iter)
      [] OTHER -> IsFinite(i.iter)

\* A pipeline whose copy restarts it: no callback in it keeps its state
\* outside the iterator object.  cycle restarts by copying the iterator it
\* was built from; the copy of any other pipeline goes on where the
\* callback's state stands.
RECURSIVE Restartable(_)
Restartable(i) ==
    CASE i.kind \in {"GeneratorIter", "FiniteGeneratorIter"} ->
           i.generatorFunction.f # "UserGenerator"
      [] i.kind \in {"CppIteratorWrapper", "EmptyIter"} -> TRUE
      [] i.kind = "ChainIter" -> Restartable(i.iter) /\ Restartable(i.chainedIter)
      [] i.kind = "ZipIter" -> Restartable(i.iter) /\ Restartable(i.zippedIter)
      [] i.kind = "CycleIter" -> Restartable(i.originalIter)
      [] i.kind = "IntersperseWithIter" ->
           i.separatorGetter.f # "UserSeparator" /\ Restartable(i.iter)
      [] OTHER -> Restartable(i.iter)

\* Some stage of the pipeline calls the by-reference separator lambda.  The
\* lambda is handed to one stage only.
RECURSIVE HasUserSeparator(_)
HasUserSeparator(i) ==
    CASE IsProducer(i) -> FALSE
      [] i.kind = "ChainIter" -> HasUserSeparator(i.iter) \/ HasUserSeparator(i.chainedIter)
      [] i.kind = "ZipIter" -> HasUserSeparator(i.iter) \/ HasUserSeparator(i.zippedIter)
      [] i.kind = "IntersperseWithIter" ->
           i.separatorGetter.f = "UserSeparator" \/ HasUserSeparator(i.iter)
      [] OTHER -> HasUserSeparator(i.iter)

\* -------------------------------------------------------------------- state
\* it       the pipeline object the caller holds
\* outType  its item type (IterBase's OutType): "int", "pair" or "iter"
\* env      the world outside the iterator objects
\* hist     the calls made on the pipeline so far: [op, val]
\* source   the producer as the creator function returned it
VARIABLES it, outType, env, hist, source
vars == <<it, outType, env, hist, source>>

Init ==
    /\ \/ it \in IntProducers /\ outType = "int"
       \/ it \in IterProducers /\ outType = "iter"
    /\ env = Env0
    /\ hist = <<>>
    /\ source = it

\* *concrete_iter(): the object an adaptor method is invoked on.
concrete_iter == Referenced(it, env)

\* A stage is added to a pipeline that has not been advanced yet and has
\* fewer than d stages.
CanBuild(d) == hist = <<>> /\ Stages(concrete_iter) < d

\* ---------------------------------------------------- IterBase: the adaptors
step_by(d) ==
    /\ CanBuild(d)
    /\ \E stepSize \in StepSizes : it' = StepByIter(IterType_copy(it, env), stepSize)
    /\ UNCHANGED <<outType, env, hist, source>>

chain(d) ==
    /\ CanBuild(d) /\ outType = "int"
    /\ \E chainedIter \in SecondIters : it' = ChainIter(IterType_copy(it, env), chainedIter)
    /\ UNCHANGED <<outType, env, hist, source>>

zip(d) ==
    /\ CanBuild(d) /\ outType = "int"
    /\ \E zippedIter \in SecondIters : it' = ZipIter(IterType_copy(it, env), zippedIter)
    /\ outType' = "pair"
    /\ UNCHANGED <<env, hist, source>>

intersperse(d) ==
    /\ CanBuild(d) /\ outType = "int"
    /\ \E separator \in Separators :
           LET c == IntersperseWithIter(IterType_copy(it, env),
                                        Getter(OutType(concrete_iter), separator), env)
           IN it' = c.it /\ env' = c.env
    /\ UNCHANGED <<outType, hist, source>>

intersperse_with(d) ==
    /\ CanBuild(d) /\ outType = "int" /\ ~HasUserSeparator(concrete_iter)
    /\ \E number \in SeparatorCounters :
           LET c == IntersperseWithIter(IterType_copy(it, env), UserSeparator(number), env)
           IN it' = c.it /\ env' = c.env
    /\ UNCHANGED <<outType, hist, source>>

map(d) ==
    /\ CanBuild(d) /\ outType = "int"
    /\ it' = MapIter(IterType_copy(it, env), TimesTwo)
    /\ UNCHANGED <<outType, env, hist, source>>

filter(d) ==
    /\ CanBuild(d) /\ outType = "int" /\ IsFinite(concrete_iter)
    /\ it' = FilterIter(IterType_copy(it, env), IsEven)
    /\ UNCHANGED <<outType, env, hist, source>>

filter_map(d) ==
    /\ CanBuild(d) /\ outType = "int" /\ IsFinite(concrete_iter)
    /\ it' = FilterMapIter(IterType_copy(it, env), DoubleIfEven)
    /\ UNCHANGED <<outType, env, hist, source>>

peekable(d) ==
    /\ CanBuild(d)
    /\ it' = PeekableIter(IterType_copy(it, env))
    /\ UNCHANGED <<outType, env, hist, source>>

skip_while(d) ==
    /\ CanBuild(d) /\ outType = "int" /\ IsFinite(concrete_iter)
    /\ it' = SkipWhileIter(IterType_copy(it, env), LessThan(2))
    /\ UNCHANGED <<outType, env, hist, source>>

take_while(d) ==
    /\ CanBuild(d) /\ outType = "int"
    /\ it' = TakeWhileIter(IterType_copy(it, env), LessThan(2))
    /\ UNCHANGED <<outType, env, hist, source>>

skip(d) ==
    /\ CanBuild(d)
    /\ \E n \in Counts : it' = SkipWhileIter(IterType_copy(it, env), Counter(n))
    /\ UNCHANGED <<outType, env, hist, source>>

take(d) ==
    /\ CanBuild(d)
    /\ \E n \in Counts : it' = TakeWhileIter(IterType_copy(it, env), Counter(n))
    /\ UNCHANGED <<outType, env, hist, source>>

enumerate(d) ==
    /\ CanBuild(d) /\ outType = "int"
    /\ it' = ZipIter(GeneratorIter(InfiniteRangeGenerator("size_t", 0, 1)),
                  IterType_copy(it, env))
    /\ outType' = "pair"
    /\ UNCHANGED <<env, hist, source>>

flatten(d) ==
    /\ CanBuild(d) /\ outType = "iter" /\ IsFinite(concrete_iter)
    /\ LET c == FlattenIter(IterType_copy(it, env), env)
       IN it' = c.it /\ env' = c.env
    /\ outType' = "int"
    /\ UNCHANGED <<hist, source>>

inspect(d) ==
    /\ CanBuild(d)
    /\ it' = InspectIter(IterType_copy(it, env), Observe)
    /\ UNCHANGED <<outType, env, hist, source>>

cycle(d) ==
    /\ CanBuild(d)
    /\ it' = CycleIter(IterType_copy(it, env))
    /\ UNCHANGED <<outType, env, hist, source>>

\* ------------------------------------------------------------ the caller
\* The caller advances the pipeline: it.next().
NextCall ==
    /\ Len(hist) < MaxCalls
    /\ LET r == next(it, env)
       IN /\ it' = r.it
          /\ env' = r.env
          /\ hist' = Append(hist, [op |-> "next", val |-> r.val])
    /\ UNCHANGED <<outType, source>>

\* The caller looks at the next item of a peekable pipeline: it.peek().
PeekCall ==
    /\ it.kind = "PeekableIter"
    /\ Len(hist) < MaxCalls
    /\ LET r == peek(it, env)
       IN /\ it' = r.it
          /\ env' = r.env
          /\ hist' = Append(hist, [op |-> "peek", val |-> r.val])
    /\ UNCHANGED <<outType, source>>

\* The sequences a collection of floats or of wide integers is compared with.
ComparedWith ==
    IF outType = "float" THEN {iter(c) : c \in FloatColls}
    ELSE {iter(c) : c \in WideColls}

\* The caller compares a pipeline of integers that has not been advanced with
\* another sequence: it.cmp(other), it.partial_cmp(other).  other is passed by
\* reference and is advanced too.
CmpCall ==
    /\ hist = <<>> /\ outType = "int"
    /\ \E other \in OtherIters :
           LET r == cmp(it, other, env)
           IN /\ it' = r.it
              /\ env' = r.env
              /\ hist' = Append(hist, [op |-> "cmp", val |-> r.ret, other |-> other,
                                       otherAfter |-> r.other])
    /\ UNCHANGED <<outType, source>>

\* Both iterators of a comparison have the same OutType (`const OutType*
\* otherValue = other.next()`): a pipeline of floats is compared with floats,
\* a pipeline of integers with integers.
PartialCmpCall ==
    /\ hist = <<>> /\ outType \in {"int", "float"}
    /\ \E other \in (IF outType = "float" THEN ComparedWith ELSE OtherIters) :
           LET r == partial_cmp(it, other, env)
           IN /\ it' = r.it
              /\ env' = r.env
              /\ hist' = Append(hist, [op |-> "partial_cmp", val |-> r.ret,
                                       other |-> other, otherAfter |-> r.other])
    /\ UNCHANGED <<outType, source>>

\* it.partial_cmp_by(other, partialComparisonFunction)
PartialCmpByCall ==
    /\ hist = <<>> /\ outType \in {"int", "float"}
    /\ \E other \in ComparedWith :
           LET r == partial_cmp_by(it, other, PartialDifference, env)
           IN /\ it' = r.it
              /\ env' = r.env
              /\ hist' = Append(hist, [op |-> "partial_cmp_by", val |-> r.ret,
                                       other |-> other, otherAfter |-> r.other])
    /\ UNCHANGED <<outType, source>>

\* it.cmp_by(other, comparisonFunction)
CmpByCall ==
    /\ hist = <<>> /\ outType = "int"
    /\ \E other \in ComparedWith, comparisonFunction \in {Difference, DifferenceReverse} :
           LET r == cmp_by(it, other, comparisonFunction, env)
           IN /\ it' = r.it
              /\ env' = r.env
              /\ hist' = Append(hist, [op |-> "cmp_by", val |-> r.ret,
                                       by |-> comparisonFunction,
                                       other |-> other, otherAfter |-> r.other])
    /\ UNCHANGED <<outType, source>>

\* it.lt(other), it.le(other), it.gt(other), it.ge(other)
LtCall ==
    /\ hist = <<>> /\ outType \in {"int", "float"}
    /\ \E other \in ComparedWith :
           LET r == lt(it, other, env)
           IN /\ it' = r.it
              /\ env' = r.env
              /\ hist' = Append(hist, [op |-> "lt", val |-> r.ret,
                                       other |-> other, otherAfter |-> r.other])
    /\ UNCHANGED <<outType, source>>

LeCall ==
    /\ hist = <<>> /\ outType \in {"int", "float"}
    /\ \E other \in ComparedWith :
           LET r == le(it, other, env)
           IN /\ it' = r.it
              /\ env' = r.env
              /\ hist' = Append(hist, [op |-> "le", val |-> r.ret,
                                       other |-> other, otherAfter |-> r.other])
    /\ UNCHANGED <<outType, source>>

GtCall ==
    /\ hist = <<>> /\ outType \in {"int", "float"}
    /\ \E other \in ComparedWith :
           LET r == gt(it, other, env)
           IN /\ it' = r.it
              /\ env' = r.env
              /\ hist' = Append(hist, [op |-> "gt", val |-> r.ret,
                                       other |-> other, otherAfter |-> r.other])
    /\ UNCHANGED <<outType, source>>

GeCall ==
    /\ hist = <<>> /\ outType \in {"int", "float"}
    /\ \E other \in ComparedWith :
           LET r == ge(it, other, env)
           IN /\ it' = r.it
              /\ env' = r.env
              /\ hist' = Append(hist, [op |-> "ge", val |-> r.ret,
                                       other |-> other, otherAfter |-> r.other])
    /\ UNCHANGED <<outType, source>>

\* eq, ne and eq_by as the terminal call on a fresh pipeline: both iterators
\* are advanced.
EqCall ==
    /\ hist = <<>> /\ outType \in {"int", "float"}
    /\ \E other \in ComparedWith :
           LET r == eq(it, other, env)
           IN /\ it' = r.it
              /\ env' = r.env
              /\ hist' = Append(hist, [op |-> "eq", val |-> r.ret,
                                       other |-> other, otherAfter |-> r.other])
    /\ UNCHANGED <<outType, source>>

NeCall ==
    /\ hist = <<>> /\ outType \in {"int", "float"}
    /\ \E other \in ComparedWith :
           LET r == ne(it, other, env)
           IN /\ it' = r.it
              /\ env' = r.env
              /\ hist' = Append(hist, [op |-> "ne", val |-> r.ret,
                                       other |-> other, otherAfter |-> r.other])
    /\ UNCHANGED <<outType, source>>

EqByCall ==
    /\ hist = <<>> /\ outType = "int"
    /\ \E other \in ComparedWith, equalityComparerFunction \in {EqualItems, EqualByParity} :
           LET r == eq_by(it, other, equalityComparerFunction, env)
           IN /\ it' = r.it
              /\ env' = r.env
              /\ hist' = Append(hist, [op |-> "eq_by", val |-> r.ret,
                                       arg |-> equalityComparerFunction,
                                       other |-> other, otherAfter |-> r.other])
    /\ UNCHANGED <<outType, source>>

\* One more stage, on a pipeline of fewer than MaxStages stages.
AnyStage ==
    \/ step_by(MaxStages) \/ chain(MaxStages) \/ zip(MaxStages)
    \/ intersperse(MaxStages) \/ intersperse_with(MaxStages) \/ map(MaxStages)
    \/ filter(MaxStages) \/ filter_map(MaxStages) \/ peekable(MaxStages)
    \/ skip_while(MaxStages) \/ take_while(MaxStages) \/ skip(MaxStages)
    \/ take(MaxStages) \/ enumerate(MaxStages) \/ flatten(MaxStages)
    \/ inspect(MaxStages) \/ cycle(MaxStages)

\* Pipelines of at most MaxStages stages, advanced by next().
Next == AnyStage \/ NextCall

Spec == Init /\ [][Next]_vars

\* One producer of every finite kind, a by-value and two by-reference
\* generators among them, and a collection of ranges for flatten.
StackedInputs ==
    {iter(<<1, 2>>), range(0, MaxRange, 1), range_inclusive(1, MaxRange, 2)}
    \cup {finite_generator(UserGenerator(s)) : s \in Scripts}
    \cup {finite_generator(FiniteCountingGenerator(1, 3))}
    \cup {once(1), once_with(2), empty, successors(Some(1), MaxRange)}

InitStacked ==
    /\ \/ it \in StackedInputs /\ outType = "int"
       \/ it = iter(<<range(0, 2, 1), range(0, 0, 1), range(1, MaxRange, 2)>>)
          /\ outType = "iter"
    /\ env = Env0
    /\ hist = <<>>
    /\ source = it

\* Pipelines of at most MaxStages + 1 stages of any kind, advanced by next().
NextStacked ==
    \/ step_by(MaxStages + 1) \/ chain(MaxStages + 1) \/ zip(MaxStages + 1)
    \/ intersperse(MaxStages + 1) \/ intersperse_with(MaxStages + 1)
    \/ map(MaxStages + 1) \/ filter(MaxStages + 1) \/ filter_map(MaxStages + 1)
    \/ peekable(MaxStages + 1) \/ skip_while(MaxStages + 1)
    \/ take_while(MaxStages + 1) \/ skip(MaxStages + 1) \/ take(MaxStages + 1)
    \/ enumerate(MaxStages + 1) \/ flatten(MaxStages + 1) \/ inspect(MaxStages + 1)
    \/ cycle(MaxStages + 1)
    \/ NextCall

SpecStacked == InitStacked /\ [][NextStacked]_vars

\* The same, with peek() on the pipelines that end in peekable.
NextPeek == AnyStage \/ NextCall \/ PeekCall

SpecPeek == Init /\ [][NextPeek]_vars

\* Pipelines of at most MaxStages stages with one more stage on top: zip or
\* enumerate, chain, step_by, intersperse or intersperse_with.
NextZip == AnyStage \/ zip(MaxStages + 1) \/ enumerate(MaxStages + 1) \/ NextCall

SpecZip == Init /\ [][NextZip]_vars

NextChain == AnyStage \/ chain(MaxStages + 1) \/ NextCall

SpecChain == Init /\ [][NextChain]_vars

NextStepBy == AnyStage \/ step_by(MaxStages + 1) \/ NextCall

SpecStepBy == Init /\ [][NextStepBy]_vars

NextIntersperse ==
    \/ AnyStage
    \/ intersperse(MaxStages + 1) \/ intersperse_with(MaxStages + 1)
    \/ NextCall

SpecIntersperse == Init /\ [][NextIntersperse]_vars

\* ... or skip_while, take_while, skip or take on top.
NextWhile ==
    \/ AnyStage
    \/ skip_while(MaxStages + 1) \/ take_while(MaxStages + 1)
    \/ skip(MaxStages + 1) \/ take(MaxStages + 1)
    \/ NextCall

SpecWhile == Init /\ [][NextWhile]_vars

\* ... or cycle on top.
NextCycle == AnyStage \/ cycle(MaxStages + 1) \/ NextCall

SpecCycle == Init /\ [][NextCycle]_vars

\* ... or flatten on top.
NextFlatten == AnyStage \/ flatten(MaxStages + 1) \/ NextCall

SpecFlatten == Init /\ [][NextFlatten]_vars

\* Producers alone, over more arguments: every range and inclusive range with
\* bounds in 0..MaxRange and a positive step, successors from several seeds,
\* and the scripted finite generators.
RangeInputs ==
    {range(lo, hi, step) :
         lo \in 0..MaxRange, hi \in 0..MaxRange, step \in 1..MaxStep}
    \cup {range_inclusive(lo, hi, step) :
              lo \in 0..MaxRange, hi \in 0..MaxRange, step \in 1..MaxStep}

SuccessorInputs ==
    {successors(seed, MaxRange) : seed \in {None} \cup {Some(v) : v \in 1..MaxRange}}

InitProducers ==
    /\ it \in RangeInputs \cup SuccessorInputs
                \cup {finite_generator(UserGenerator(script)) : script \in Scripts}
                \cup {finite_generator(FiniteCountingGenerator(lo, hi)) :
                          lo \in 0..MaxCount, hi \in 0..MaxRange}
    /\ outType = "int"
    /\ env = Env0
    /\ hist = <<>>
    /\ source = it

SpecProducers == InitProducers /\ [][NextCall]_vars

\* Pipelines of at most MaxStages stages, compared with another sequence.
NextCmp == AnyStage \/ CmpCall \/ PartialCmpCall

SpecCmp == Init /\ [][NextCmp]_vars

\* Collections of floats and of wide integers alone, under every comparison.
InitOrder ==
    /\ \/ it \in {iter(c) : c \in FloatColls} /\ outType = "float"
       \/ it \in {iter(c) : c \in WideColls} /\ outType = "int"
    /\ env = Env0
    /\ hist = <<>>
    /\ source = it

NextOrder ==
    \/ PartialCmpCall \/ PartialCmpByCall \/ CmpByCall
    \/ LtCall \/ LeCall \/ GtCall \/ GeCall
    \/ EqCall \/ NeCall \/ EqByCall

SpecOrder == InitOrder /\ [][NextOrder]_vars

\* ------------------------------------------------ the caller: consumers
\* Collections of integers in which different items have the same half.
ConsumerColls == UNION {[1..l -> 2..5] : l \in 0..MaxLen}

\* The pipelines handed to the consumers: collections, the producers, a take
\* of an infinite range and a cycle; and a collection of int and a range of
\* int8_t with the same items, whose sum is no int8_t.
ConsumerInputs ==
    {iter(c) : c \in ConsumerColls} \cup IntProducers
    \cup {TakeWhileIter(infinite_range(0, 1), Counter(MaxCount)),
          CycleIter(iter(<<2, 3>>))}
    \cup {iter(<<100, 101>>), range(100, 102, 1)}

InitConsumers ==
    /\ it \in ConsumerInputs
    /\ outType = "int"
    /\ env = Env0
    /\ hist = <<>>
    /\ source = it

\* The predicates, comparers and seeds the caller hands to the consumers.
ConsumerPredicates == {IsEven, LessThan(4)}
Comparers == {Difference, DifferenceReverse, HalfDifference}
Reducers == {Sum, DoubleAndAdd}
Seeds == {0, 1}

\* A consumer that runs to the end of the pipeline is called once, on a
\* pipeline that is finite and has been advanced by next() fewer than
\* MaxCount times.
ConsumerMayStart ==
    /\ Len(hist) < MaxCount
    /\ \A k \in 1..Len(hist) : hist[k].op = "next"

\* Each call records its argument, its result, the number of next() calls
\* made on the pipeline before and after it, and the number of calls of the
\* callback it was handed.
\* it.nth(idx), also several times in a row.
NthCall ==
    /\ Len(hist) < MaxCount
    /\ \E idx \in Counts :
           LET r == nth(it, idx, env)
           IN /\ it' = r.it
              /\ env' = r.env
              /\ hist' = Append(hist, [op |-> "nth", arg |-> idx, val |-> r.ret,
                                       from |-> Len(it.log), to |-> Len(r.it.log),
                                       calls |-> r.env.cons - env.cons])
    /\ UNCHANGED <<outType, source>>

\* it.all(predicate), it.any(predicate), it.find(predicate), it.position(predicate)
AllCall ==
    /\ ConsumerMayStart /\ IsFinite(it)
    /\ \E predicate \in ConsumerPredicates :
           LET r == all(it, predicate, env)
           IN /\ it' = r.it
              /\ env' = r.env
              /\ hist' = Append(hist, [op |-> "all", arg |-> predicate, val |-> r.ret,
                                       from |-> Len(it.log), to |-> Len(r.it.log),
                                       calls |-> r.env.cons - env.cons])
    /\ UNCHANGED <<outType, source>>

AnyCall ==
    /\ ConsumerMayStart /\ IsFinite(it)
    /\ \E predicate \in ConsumerPredicates :
           LET r == any(it, predicate, env)
           IN /\ it' = r.it
              /\ env' = r.env
              /\ hist' = Append(hist, [op |-> "any", arg |-> predicate, val |-> r.ret,
                                       from |-> Len(it.log), to |-> Len(r.it.log),
                                       calls |-> r.env.cons - env.cons])
    /\ UNCHANGED <<outType, source>>

FindCall ==
    /\ ConsumerMayStart /\ IsFinite(it)
    /\ \E predicate \in ConsumerPredicates :
           LET r == find(it, predicate, env)
           IN /\ it' = r.it
              /\ env' = r.env
              /\ hist' = Append(hist, [op |-> "find", arg |-> predicate, val |-> r.ret,
                                       from |-> Len(it.log), to |-> Len(r.it.log),
                                       calls |-> r.env.cons - env.cons])
    /\ UNCHANGED <<outType, source>>

PositionCall ==
    /\ ConsumerMayStart /\ IsFinite(it)
    /\ \E predicate \in ConsumerPredicates :
           LET r == position(it, predicate, env)
           IN /\ it' = r.it
              /\ env' = r.env
              /\ hist' = Append(hist, [op |-> "position", arg |-> predicate, val |-> r.ret,
                                       from |-> Len(it.log), to |-> Len(r.it.log),
                                       calls |-> r.env.cons - env.cons])
    /\ UNCHANGED <<outType, source>>

\* it.min(), it.min_by(comparer), it.max(), it.max_by(comparer)
MinCall ==
    /\ ConsumerMayStart /\ IsFinite(it)
    /\ LET r == min(it, env)
       IN /\ it' = r.it
          /\ env' = r.env
          /\ hist' = Append(hist, [op |-> "min", arg |-> [f |-> "compare"], val |-> r.ret,
                                   from |-> Len(it.log), to |-> Len(r.it.log),
                                   calls |-> r.env.cons - env.cons])
    /\ UNCHANGED <<outType, source>>

MinByCall ==
    /\ ConsumerMayStart /\ IsFinite(it)
    /\ \E comparer \in Comparers :
           LET r == min_by(it, comparer, env)
           IN /\ it' = r.it
              /\ env' = r.env
              /\ hist' = Append(hist, [op |-> "min_by", arg |-> comparer, val |-> r.ret,
                                       from |-> Len(it.log), to |-> Len(r.it.log),
                                       calls |-> r.env.cons - env.cons])
    /\ UNCHANGED <<outType, source>>

MaxCall ==
    /\ ConsumerMayStart /\ IsFinite(it)
    /\ LET r == max(it, env)
       IN /\ it' = r.it
          /\ env' = r.env
          /\ hist' = Append(hist, [op |-> "max", arg |-> [f |-> "compare"], val |-> r.ret,
                                   from |-> Len(it.log), to |-> Len(r.it.log),
                                   calls |-> r.env.cons - env.cons])
    /\ UNCHANGED <<outType, source>>

MaxByCall ==
    /\ ConsumerMayStart /\ IsFinite(it)
    /\ \E comparer \in Comparers :
           LET r == max_by(it, comparer, env)
           IN /\ it' = r.it
              /\ env' = r.env
              /\ hist' = Append(hist, [op |-> "max_by", arg |-> comparer, val |-> r.ret,
                                       from |-> Len(it.log), to |-> Len(r.it.log),
                                       calls |-> r.env.cons - env.cons])
    /\ UNCHANGED <<outType, source>>

\* it.is_sorted_ascending(), it.is_sorted_descending(), it.is_sorted_by(comparer)
IsSortedAscendingCall ==
    /\ ConsumerMayStart /\ IsFinite(it)
    /\ LET r == is_sorted_ascending(it, env)
       IN /\ it' = r.it
          /\ env' = r.env
          /\ hist' = Append(hist, [op |-> "is_sorted_ascending", arg |-> [f |-> "compare"], val |-> r.ret,
                                   from |-> Len(it.log), to |-> Len(r.it.log),
                                   calls |-> r.env.cons - env.cons])
    /\ UNCHANGED <<outType, source>>

IsSortedDescendingCall ==
    /\ ConsumerMayStart /\ IsFinite(it)
    /\ LET r == is_sorted_descending(it, env)
       IN /\ it' = r.it
          /\ env' = r.env
          /\ hist' = Append(hist, [op |-> "is_sorted_descending", arg |-> [f |-> "compare_reverse"], val |-> r.ret,
                                   from |-> Len(it.log), to |-> Len(r.it.log),
                                   calls |-> r.env.cons - env.cons])
    /\ UNCHANGED <<outType, source>>

IsSortedByCall ==
    /\ ConsumerMayStart /\ IsFinite(it)
    /\ \E comparer \in Comparers :
           LET r == is_sorted_by(it, comparer, env)
           IN /\ it' = r.it
              /\ env' = r.env
              /\ hist' = Append(hist, [op |-> "is_sorted_by", arg |-> comparer, val |-> r.ret,
                                       from |-> Len(it.log), to |-> Len(r.it.log),
                                       calls |-> r.env.cons - env.cons])
    /\ UNCHANGED <<outType, source>>

\* it.fold(initialValue, foldFunction), it.reduce(reduceFunction)
FoldCall ==
    /\ ConsumerMayStart /\ IsFinite(it)
    /\ \E initialValue \in Seeds, foldFunction \in Reducers :
           LET r == fold(it, "int", initialValue, foldFunction, env)
           IN /\ it' = r.it
              /\ env' = r.env
              /\ hist' = Append(hist, [op |-> "fold", arg |-> [seed |-> initialValue, f |-> foldFunction], val |-> r.ret,
                                       from |-> Len(it.log), to |-> Len(r.it.log),
                                       calls |-> r.env.cons - env.cons])
    /\ UNCHANGED <<outType, source>>

ReduceCall ==
    /\ ConsumerMayStart /\ IsFinite(it)
    /\ \E reduceFunction \in Reducers :
           LET r == reduce(it, reduceFunction, env)
           IN /\ it' = r.it
              /\ env' = r.env
              /\ hist' = Append(hist, [op |-> "reduce", arg |-> reduceFunction, val |-> r.ret,
                                       from |-> Len(it.log), to |-> Len(r.it.log),
                                       calls |-> r.env.cons - env.cons])
    /\ UNCHANGED <<outType, source>>

\* The pipelines of ConsumerInputs under nth and next.
NextNth == NthCall \/ NextCall

SpecNth == InitConsumers /\ [][NextNth]_vars

\* ... under the searching consumers and next.
NextSearch == AllCall \/ AnyCall \/ FindCall \/ PositionCall \/ NextCall

SpecSearch == InitConsumers /\ [][NextSearch]_vars

\* ... under the consumers that fold the items into one value, and next.
NextFold ==
    \/ MinCall \/ MinByCall \/ MaxCall \/ MaxByCall
    \/ IsSortedAscendingCall \/ IsSortedDescendingCall \/ IsSortedByCall
    \/ FoldCall \/ ReduceCall
    \/ NextCall

SpecFold == InitConsumers /\ [][NextFold]_vars

\* it.for_each(callback) with a callback that records the items, it.collect(),
\* it.count(), it.partition(predicate)
ForEachCall ==
    /\ ConsumerMayStart /\ IsFinite(it)
    /\ LET r == for_each(it, Recorder, <<>>, env)
       IN /\ it' = r.it
          /\ env' = r.env
          /\ hist' = Append(hist, [op |-> "for_each", arg |-> Recorder, val |-> r.ret,
                                   from |-> Len(it.log), to |-> Len(r.it.log),
                                   calls |-> r.env.cons - env.cons])
    /\ UNCHANGED <<outType, source>>

CollectCall ==
    /\ ConsumerMayStart /\ IsFinite(it)
    /\ LET r == collect(it, env)
       IN /\ it' = r.it
          /\ env' = r.env
          /\ hist' = Append(hist, [op |-> "collect", arg |-> <<>>, val |-> r.ret,
                                   from |-> Len(it.log), to |-> Len(r.it.log),
                                   calls |-> r.env.cons - env.cons])
    /\ UNCHANGED <<outType, source>>

CountCall ==
    /\ ConsumerMayStart /\ IsFinite(it)
    /\ LET r == count(it, env)
       IN /\ it' = r.it
          /\ env' = r.env
          /\ hist' = Append(hist, [op |-> "count", arg |-> <<>>, val |-> r.ret,
                                   from |-> Len(it.log), to |-> Len(r.it.log),
                                   calls |-> r.env.cons - env.cons])
    /\ UNCHANGED <<outType, source>>

CollectWithSizeHintCall ==
    /\ ConsumerMayStart /\ IsFinite(it)
    /\ \E sizeHint \in 0..MaxLen :
           LET r == collect_with_size_hint(it, sizeHint, env)
           IN /\ it' = r.it
              /\ env' = r.env
              /\ hist' = Append(hist, [op |-> "collect_with_size_hint",
                                       arg |-> <<sizeHint>>, val |-> r.ret,
                                       from |-> Len(it.log), to |-> Len(r.it.log),
                                       calls |-> r.env.cons - env.cons])
    /\ UNCHANGED <<outType, source>>

LastCall ==
    /\ ConsumerMayStart /\ IsFinite(it)
    /\ LET r == last(it, env)
       IN /\ it' = r.it
          /\ env' = r.env
          /\ hist' = Append(hist, [op |-> "last", arg |-> <<>>, val |-> r.ret,
                                   from |-> Len(it.log), to |-> Len(r.it.log),
                                   calls |-> r.env.cons - env.cons])
    /\ UNCHANGED <<outType, source>>

SumCall ==
    /\ ConsumerMayStart /\ IsFinite(it) /\ outType = "int"
    /\ LET r == sum(it, OutType(it), env)
       IN /\ it' = r.it
          /\ env' = r.env
          /\ hist' = Append(hist, [op |-> "sum", arg |-> <<>>, val |-> r.ret,
                                   from |-> Len(it.log), to |-> Len(r.it.log),
                                   calls |-> r.env.cons - env.cons])
    /\ UNCHANGED <<outType, source>>

ProductCall ==
    /\ ConsumerMayStart /\ IsFinite(it) /\ outType = "int"
    /\ LET r == product(it, OutType(it), env)
       IN /\ it' = r.it
          /\ env' = r.env
          /\ hist' = Append(hist, [op |-> "product", arg |-> <<>>, val |-> r.ret,
                                   from |-> Len(it.log), to |-> Len(r.it.log),
                                   calls |-> r.env.cons - env.cons])
    /\ UNCHANGED <<outType, source>>

PartitionCall ==
    /\ ConsumerMayStart /\ IsFinite(it)
    /\ \E predicate \in ConsumerPredicates :
           LET r == partition(it, predicate, env)
           IN /\ it' = r.it
              /\ env' = r.env
              /\ hist' = Append(hist, [op |-> "partition", arg |-> predicate, val |-> r.ret,
                                       from |-> Len(it.log), to |-> Len(r.it.log),
                                       calls |-> r.env.cons - env.cons])
    /\ UNCHANGED <<outType, source>>

\* The draining consumers and next().
NextCollect ==
    \/ ForEachCall \/ CollectCall \/ CountCall \/ PartitionCall \/ NextCall
    \/ CollectWithSizeHintCall \/ LastCall \/ SumCall \/ ProductCall

SpecCollect == InitConsumers /\ [][NextCollect]_vars

\* ----------------------------------------------- the caller: the host loop
\* The bridge iterator the caller holds: the one returned by the last
\* begin() or operator++.
HasBridge == \E k \in 1..Len(hist) : hist[k].op = "begin"
Bridge == hist[Len(hist)].cpp

\* Each call on a bridge records the bridge iterator b of the host loop after
\* it, the iterator the call returned (b itself, or the copy of b++), the
\* item designated by the iterator that was advanced, whether that iterator
\* compares equal to end(), whether it did so before the call, and the
\* number of next() calls made on the pipeline before and after it.
BridgeCalled(op, r, wasAtEnd) ==
    /\ it' = r.it
    /\ env' = r.env
    /\ hist' = Append(hist, [op |-> op, val |-> r.cpp.value,
                             cpp |-> IF op = "++prev" THEN Bridge ELSE r.cpp,
                             returned |-> IF op = "++(int)" THEN r.prev ELSE r.cpp,
                             atEnd |-> CppIterator_equal(r.cpp, end),
                             wasAtEnd |-> wasAtEnd,
                             from |-> Len(it.log), to |-> Len(r.it.log)])
    /\ UNCHANGED <<outType, source>>

\* auto b = it.begin()
BeginCall ==
    /\ Len(hist) < MaxCount
    /\ ~HasBridge
    /\ BridgeCalled("begin", begin(it, env), FALSE)

\* ++b
IncrementCall ==
    /\ Len(hist) < MaxCalls
    /\ HasBridge
    /\ BridgeCalled("++", CppIterator_increment(Bridge, it, env),
                    CppIterator_equal(Bridge, end))

\* auto prev = b++: b is advanced as by ++b, the copy prev keeps the item b
\* designated before and the pointer to the pipeline.
PostIncrementCall ==
    /\ Len(hist) < MaxCalls
    /\ HasBridge
    /\ BridgeCalled("++(int)", CppIterator_post_increment(Bridge, it, env),
                    CppIterator_equal(Bridge, end))

\* ++prev on the copy the last b++ returned, a second bridge on the same
\* pipeline: b itself is left as it was.
PrevIncrementCall ==
    /\ Len(hist) < MaxCalls
    /\ hist # <<>> /\ hist[Len(hist)].op \in {"++(int)", "++prev"}
    /\ BridgeCalled("++prev",
                    CppIterator_increment(hist[Len(hist)].returned, it, env),
                    CppIterator_equal(hist[Len(hist)].returned, end))

\* next() called on the pipeline before the host loop starts.
NextBeforeBegin == ~HasBridge /\ NextCall

\* Pipelines walked by the host loop or by for_each.
NextBridge ==
    \/ BeginCall \/ IncrementCall \/ PostIncrementCall \/ PrevIncrementCall
    \/ ForEachCall \/ NextBeforeBegin

SpecBridge == InitConsumers /\ [][NextBridge]_vars

\* ------------------------------------------ the caller: stage and original
\* The caller keeps the iterator object in a variable of its own
\* (env.original) and builds the stage from it: `auto stage =
\* original.step_by(2)`.  The adaptor method is invoked on the reference
\* *this; afterwards the caller advances the stage (it) as well as the
\* original, in any order.
\* stage.next(); the entry records the stage and the world before the call.
StageNextCall ==
    /\ Stages(it) >= 1
    /\ Cardinality({k \in 1..Len(hist) : hist[k].op = "next"}) < MaxCount
    /\ LET r == next(it, env)
       IN /\ it' = r.it
          /\ env' = r.env
          /\ hist' = Append(hist, [op |-> "next", val |-> r.val, self |-> it,
                                   world |-> env])
    /\ UNCHANGED <<outType, source>>

\* original.next()
OriginalNextCall ==
    /\ Stages(it) >= 1
    /\ Cardinality({k \in 1..Len(hist) : hist[k].op = "original.next"}) < MaxCount
    /\ LET r == next(Reference(OutType(env.original)), env)
       IN /\ env' = r.env
          /\ hist' = Append(hist, [op |-> "original.next", val |-> r.val])
    /\ UNCHANGED <<it, outType, source>>

\* The originals: cursor pairs over collections, ranges, a repeat, a
\* generator around a user function, and a collection of ranges.
CopyInputs ==
    {iter(c) : c \in {d \in Colls : Len(d) = MaxLen}}
    \cup {range(0, MaxRange, 1), infinite_range(0, 1), repeat(1), once(1)}
    \cup {finite_generator(UserGenerator(s)) : s \in Scripts}
    \cup {finite_generator(FiniteCountingGenerator(1, 3))}

InitCopy ==
    /\ \/ source \in CopyInputs /\ outType = "int"
       \/ source = iter(<<range(0, 2, 1), range(0, 0, 1), range(1, MaxRange, 2)>>)
          /\ outType = "iter"
    /\ env = [Env0 EXCEPT !.original = source]
    /\ it = Reference(OutType(source))
    /\ hist = <<>>

NextCopy == AnyStage \/ StageNextCall \/ OriginalNextCall

SpecCopy == InitCopy /\ [][NextCopy]_vars

\* ------------------------------------------ the caller: ranges at the edges
\* Ranges whose bounds lie next to the smallest value of the item type, next
\* to zero or next to the largest value, with negative, zero and positive
\* steps, advanced by next().
EdgeValues ==
    (IntMin..(IntMin + MaxCount)) \cup (0..MaxCount) \cup ((IntMax - MaxCount)..IntMax)

EdgeRanges ==
    {range(lo, hi, step) :
         lo \in EdgeValues, hi \in EdgeValues, step \in (-MaxStep)..MaxStep}
    \cup {range_inclusive(lo, hi, step) :
              lo \in EdgeValues, hi \in EdgeValues, step \in (-MaxStep)..MaxStep}

InitRangeEdge ==
    /\ it \in EdgeRanges
    /\ outType = "int"
    /\ env = Env0
    /\ hist = <<>>
    /\ source = it

SpecRangeEdge == InitRangeEdge /\ [][NextCall]_vars

\* ------------------------------------------------------------- observations
\* Number of calls in a log (or in hist) that reported exhaustion.
RECURSIVE NoneCount(_)
NoneCount(log) ==
    IF log = <<>> THEN 0
    ELSE (IF IsNone(log[Len(log)]) THEN 1 ELSE 0) + NoneCount(SubSeq(log, 1, Len(log) - 1))

\* The results of the calls made on the pipeline, and those of next() alone.
Results == [k \in 1..Len(hist) |-> hist[k].val]
NextResults == LET n == SelectSeq(hist, LAMBDA e : e.op = "next")
               IN [k \in 1..Len(n) |-> n[k].val]

\* The j-th result of a log, "exhausted" beyond what was pulled.
Item(log, j) == IF j <= Len(log) THEN log[j] ELSE None

\* A stage was constructed in this step.
Built == hist' = <<>> /\ it' # it

\* =================================================================== claims

\* Once next() on the pipeline has reported exhaustion, every later next()
\* on it has reported exhaustion too.
StaysExhausted ==
    \A i, j \in 1..Len(hist) :
        (i < j /\ hist[i].op = "next" /\ hist[j].op = "next" /\ IsNone(hist[i].val))
            => IsNone(hist[j].val)

\* C1 (as claimed) -- Sticky exhaustion: once next() on a pipeline of the
\* library's producers and adaptors has reported exhaustion, every later
\* next() on it reports exhaustion too.
C1_StickyExhaustion == StaysExhausted

\* Every cycle stage of the pipeline was built over a restartable upstream.
RECURSIVE CyclesRestartable(_)
CyclesRestartable(i) ==
    CASE IsProducer(i) -> TRUE
      [] i.kind = "ChainIter" ->
           CyclesRestartable(i.iter) /\ CyclesRestartable(i.chainedIter)
      [] i.kind = "ZipIter" -> CyclesRestartable(i.iter) /\ CyclesRestartable(i.zippedIter)
      [] i.kind = "CycleIter" -> Restartable(i.originalIter)
      [] OTHER -> CyclesRestartable(i.iter)

\* C1 (amended) -- Sticky exhaustion holds for every pipeline in which
\* cycle is applied to restartable upstreams only.  A cycle over an
\* upstream whose callback keeps its state outside the iterator object
\* (a finite_generator around a function that captures by reference)
\* reports exhaustion when the restarted copy yields nothing, and yields
\* again on a later call, when the function does.
C1_StickyUnlessCycleSharesState == CyclesRestartable(it) => StaysExhausted

\* A pipeline of two stages over a finite_generator whose function returns
\* a value again on its fourth call has been advanced four times: one item,
\* then exhaustion three times, the function having been called twice.
C1_Witness ==
    /\ Stages(it) >= 2 /\ CyclesRestartable(it)
    /\ source.kind = "FiniteGeneratorIter"
    /\ source.generatorFunction.f = "UserGenerator"
    /\ Len(source.generatorFunction.script) >= 4
    /\ IsSome(source.generatorFunction.script[4])
    /\ Len(hist) >= 4
    /\ IsSome(hist[1].val)
    /\ IsNone(hist[2].val) /\ IsNone(hist[3].val) /\ IsNone(hist[4].val)
    /\ env.gen = 2

\* C2 (as claimed) -- Constructing a stage advances no upstream sequence and
\* invokes no user callback.
C2_NothingRunsUntilPulled ==
    [][Built =>
          /\ env' = env
          /\ CASE it'.kind = "CycleIter" -> it'.originalIter = it /\ it'.iter = it
               [] it'.kind = "ZipIter" -> it'.iter = it \/ it'.zippedIter = it
               [] OTHER -> it'.iter = it]_vars

\* C2 (amended) -- Constructing intersperse, intersperse_with or flatten
\* advances the upstream exactly once and invokes no separator function;
\* constructing any other stage advances no upstream and invokes no callback.
C2_OnlyPrefetchRunsAtConstruction ==
    [][Built =>
          CASE it'.kind \in {"IntersperseWithIter", "FlattenIter"} ->
                 /\ Len(it'.iter.log) = Len(it.log) + 1
                 /\ env'.sep = env.sep
            [] it'.kind = "CycleIter" ->
                 it'.originalIter = it /\ it'.iter = it /\ env' = env
            [] it'.kind = "ZipIter" ->
                 (it'.iter = it \/ it'.zippedIter = it) /\ env' = env
            [] OTHER -> it'.iter = it /\ env' = env]_vars

\* intersperse_with has just been constructed over a finite_generator with a
\* by-reference function: the upstream was advanced and the function called.
C2_Witness ==
    /\ hist = <<>>
    /\ it.kind = "IntersperseWithIter"
    /\ it.separatorGetter.f = "UserSeparator"
    /\ Len(it.iter.log) = 1
    /\ env.gen = 1 /\ env.sep = 0

\* C3 -- A peek() that follows a peek() does not advance the upstream and
\* returns the same result, also when the upstream is exhausted.
C3_RepeatedPeekPullsOnce ==
    [][(/\ hist # <<>>
        /\ hist[Len(hist)].op = "peek"
        /\ Len(hist') = Len(hist) + 1
        /\ hist'[Len(hist')].op = "peek")
          => /\ it'.iter.log = it.iter.log
             /\ hist'[Len(hist')].val = hist[Len(hist)].val]_vars

\* C4 -- On a peekable, the results of next() are the upstream's results in
\* order; a peek() returns what the next() following it returns; two peeks in
\* a row return the same.  The upstream is a sequence whose exhaustion is
\* permanent: none that cycles a generator whose function keeps its state
\* outside the iterator object (C1).
C4_PeekAgreesWithNext ==
    (it.kind = "PeekableIter" /\ CyclesRestartable(it.iter)) =>
        /\ Len(NextResults) <= Len(it.iter.log)
        /\ \A k \in 1..Len(NextResults) : NextResults[k] = it.iter.log[k]
        /\ \A i, j \in 1..Len(hist) :
               (/\ i < j
                /\ hist[i].op = "peek"
                /\ \A m \in (i + 1)..(j - 1) : hist[m].op = "peek")
                   => hist[i].val = hist[j].val

\* peek, peek, next, next on a peekable with at least two items.
C4_Witness ==
    /\ it.kind = "PeekableIter"
    /\ Len(hist) >= 4
    /\ hist[1].op = "peek" /\ hist[2].op = "peek"
    /\ hist[3].op = "next" /\ IsSome(hist[3].val)
    /\ hist[4].op = "next" /\ IsSome(hist[4].val)

\* Number of zip's next() calls up to and including the first that reported
\* exhaustion.
CallsUntilExhausted ==
    LET ex == {k \in 1..Len(hist) : IsNone(hist[k].val)}
    IN IF ex = {} THEN Len(hist) ELSE CHOOSE k \in ex : \A m \in ex : k <= m

\* C5 -- zip advances both upstreams once on every next() up to and including
\* the one that first reports exhaustion, and never after.
C5_ZipLockstep ==
    it.kind = "ZipIter" =>
        /\ Len(it.iter.log) = CallsUntilExhausted
        /\ Len(it.zippedIter.log) = CallsUntilExhausted

\* zip was advanced past its exhaustion; on the exhausting call the first
\* upstream was exhausted and the second upstream's item was discarded.
C5_Witness ==
    /\ it.kind = "ZipIter"
    /\ Len(hist) > CallsUntilExhausted
    /\ CallsUntilExhausted >= 2
    /\ IsNone(it.iter.log[Len(it.iter.log)])
    /\ IsSome(it.zippedIter.log[Len(it.zippedIter.log)])

\* C6 -- chain(A, B): B is not advanced before A has reported exhaustion, is
\* advanced on the very call on which A reports it and on every later call,
\* and A is never advanced again (length(A) + 1 times in total).
C6_ChainSwitchesOnce ==
    it.kind = "ChainIter" =>
        LET A == it.iter.log
            B == it.chainedIter.log
        IN /\ NoneCount(A) <= 1
           /\ NoneCount(A) = 0 => (B = <<>> /\ Len(A) = Len(hist))
           /\ NoneCount(A) = 1 =>
                  /\ IsNone(A[Len(A)])
                  /\ Len(B) = Len(hist) - Len(A) + 1

\* A non-empty A was exhausted and the chain pulled at least twice afterwards.
C6_Witness ==
    /\ it.kind = "ChainIter"
    /\ Len(it.iter.log) >= 2
    /\ NoneCount(it.iter.log) = 1
    /\ Len(hist) >= Len(it.iter.log) + 2

\* C7 -- step_by(n) with n <= 0 reports exhaustion on every next() and never
\* advances its upstream.
C7_StepByNonPositive ==
    (it.kind = "StepByIter" /\ it.stepSize <= 0) =>
        /\ it.iter.log = <<>>
        /\ \A k \in 1..Len(hist) : IsNone(hist[k].val)

\* step_by(0) over an infinite upstream was advanced twice.
C7_Witness ==
    /\ it.kind = "StepByIter" /\ it.stepSize = 0
    /\ it.iter.kind = "GeneratorIter"
    /\ Len(hist) >= 2

\* C8 -- step_by(n) with n >= 1: the k-th next() (k = 0, 1, ...) returns what
\* the upstream returns at index k * n, the upstream having been advanced
\* 1 + (k - 1) * n times after k calls.
C8_StepByStride ==
    (it.kind = "StepByIter" /\ it.stepSize >= 1) =>
        /\ Len(it.iter.log) =
               (IF hist = <<>> THEN 0 ELSE 1 + (Len(hist) - 1) * it.stepSize)
        /\ \A k \in 1..Len(hist) :
               hist[k].val = it.iter.log[(k - 1) * it.stepSize + 1]

\* step_by(2) over a chain has returned an item of the chain's second part.
C8_Witness ==
    /\ it.kind = "StepByIter" /\ it.stepSize = 2
    /\ it.iter.kind = "ChainIter"
    /\ Len(hist) >= 3
    /\ IsSome(hist[Len(hist)].val)
    /\ Len(it.iter.chainedIter.log) >= 2

\* Number of upstream items an intersperse stage has seen.
RealItems == Len(it.iter.log) - NoneCount(it.iter.log)

\* C9 -- intersperse_with(fn): fn has been invoked once per separator
\* returned so far, the j-th invocation on the call that returns the j-th
\* separator (what that invocation returned, as a value of the item type),
\* max(L - 1, 0) times once exhaustion is reported.
C9_SeparatorOnDemand ==
    (it.kind = "IntersperseWithIter" /\ it.separatorGetter.f = "UserSeparator") =>
        /\ env.sep = Cardinality({k \in 1..Len(hist) : k % 2 = 0 /\ IsSome(hist[k].val)})
        /\ \A k \in 1..Len(hist) :
               (k % 2 = 0 /\ IsSome(hist[k].val)) =>
                   hist[k].val = Some(Convert(OutType(it.iter),
                                              it.separatorGetter.number - k \div 2))
        /\ NoneCount(Results) > 0 =>
               env.sep = (IF RealItems >= 1 THEN RealItems - 1 ELSE 0)

\* intersperse_with over three int8_t items is exhausted: two separators,
\* the second of them the int8_t that IntMin - 1 converts to.
C9_Witness ==
    /\ it.kind = "IntersperseWithIter" /\ it.separatorGetter.f = "UserSeparator"
    /\ OutType(it.iter) = "int8_t" /\ it.separatorGetter.number = IntMin + 1
    /\ RealItems = 3
    /\ NoneCount(Results) > 0
    /\ env.sep = 2
    /\ hist[2].val = Some(IntMin) /\ hist[4].val = Some(IntMax)

\* C10 -- intersperse(sep) over L items yields the items at the even
\* positions and sep at the odd ones, 2L - 1 items for L >= 1 and none for
\* L = 0.
C10_IntersperseLayout ==
    (it.kind = "IntersperseWithIter" /\ it.separatorGetter.f = "Getter") =>
        /\ \A k \in 1..Len(hist) :
               hist[k].val =
                   IF k % 2 = 1
                   THEN Item(it.iter.log, (k + 1) \div 2)
                   ELSE IF IsSome(Item(it.iter.log, k \div 2 + 1))
                        THEN Some(it.separatorGetter.value)
                        ELSE None
        /\ NoneCount(Results) > 0 =>
               Len(hist) - NoneCount(Results) =
                   (IF RealItems >= 1 THEN 2 * RealItems - 1 ELSE 0)

\* intersperse(200) over three items of type int is exhausted after five
\* items, the second and the fourth of them 200.
C10_Witness ==
    /\ it.kind = "IntersperseWithIter" /\ it.separatorGetter.f = "Getter"
    /\ OutType(it.iter) = "int"
    /\ RealItems = 3
    /\ NoneCount(Results) > 0
    /\ Len(hist) - NoneCount(Results) = 5
    /\ hist[2].val = Some(200) /\ hist[4].val = Some(200)

\* Some stage of the pipeline evaluates a user predicate (counted in env.pred).
RECURSIVE EvaluatesPredicate(_)
EvaluatesPredicate(i) ==
    CASE IsProducer(i) -> FALSE
      [] i.kind = "ChainIter" ->
           EvaluatesPredicate(i.iter) \/ EvaluatesPredicate(i.chainedIter)
      [] i.kind = "ZipIter" ->
           EvaluatesPredicate(i.iter) \/ EvaluatesPredicate(i.zippedIter)
      [] i.kind \in {"FilterIter", "FilterMapIter"} -> TRUE
      [] i.kind \in {"SkipWhileIter", "TakeWhileIter"} ->
           i.predicate.f # "Counter" \/ EvaluatesPredicate(i.iter)
      [] i.kind = "CycleIter" -> EvaluatesPredicate(i.originalIter)
      [] OTHER -> EvaluatesPredicate(i.iter)

\* Number of items in a log.
SomeCount(log) == Len(log) - NoneCount(log)

\* Length of the longest prefix of a log made of items less than k.
RECURSIVE PrefixBelow(_, _)
PrefixBelow(log, k) ==
    IF log # <<>> /\ IsSome(log[1]) /\ Get(log[1]) < k
    THEN 1 + PrefixBelow(Tail(log), k)
    ELSE 0

\* Length of the longest prefix of a log made of items.
RECURSIVE PrefixSome(_)
PrefixSome(log) ==
    IF log # <<>> /\ IsSome(log[1]) THEN 1 + PrefixSome(Tail(log)) ELSE 0

\* C11 -- take_while(pred) yields the longest prefix of the upstream on which
\* pred holds; the first item failing pred is pulled and discarded, and from
\* then on every next() reports exhaustion without advancing the upstream or
\* evaluating pred.
C11_TakeWhilePrefix ==
    (it.kind = "TakeWhileIter" /\ it.predicate.f = "LessThan") =>
        LET U == it.iter.log
            p == PrefixBelow(U, it.predicate.k)
        IN /\ Len(U) = CallsUntilExhausted
           /\ p >= Len(U) - 1
           /\ \A k \in 1..Len(hist) :
                  hist[k].val = (IF k <= p THEN U[k] ELSE None)
           /\ ~EvaluatesPredicate(it.iter) => env.pred = SomeCount(U)

\* take_while(< 2) over the cycle 1, 2, 1, 2, ...: 1 was yielded, 2 discarded,
\* and two more calls were made while the upstream's next item is 1.
C11_Witness ==
    /\ it.kind = "TakeWhileIter" /\ it.predicate.f = "LessThan"
    /\ it.iter.kind = "CycleIter"
    /\ it.iter.log = <<Some(1), Some(2)>>
    /\ Len(hist) >= 4
    /\ env.pred = 2

\* C12 -- skip_while(pred) drops the longest prefix of the upstream on which
\* pred holds and yields everything after it unfiltered; pred is not evaluated
\* after its first false result; if pred holds throughout the result is empty.
C12_SkipWhilePrefix ==
    (it.kind = "SkipWhileIter" /\ it.predicate.f = "LessThan" /\ hist # <<>>) =>
        LET U == it.iter.log
            p == PrefixBelow(U, it.predicate.k)
        IN /\ Len(U) = p + Len(hist)
           /\ \A k \in 1..Len(hist) : hist[k].val = U[p + k]
           /\ ~EvaluatesPredicate(it.iter) =>
                  env.pred = p + (IF IsSome(U[p + 1]) THEN 1 ELSE 0)

\* skip_while(< 2) over the collection 2, 1 has yielded 2 and then 1, which
\* satisfies the predicate; the predicate was evaluated once.
C12_Witness ==
    /\ it.kind = "SkipWhileIter" /\ it.predicate.f = "LessThan"
    /\ it.iter.kind = "CppIteratorWrapper"
    /\ Len(hist) >= 3
    /\ hist[1].val = Some(2) /\ hist[2].val = Some(1) /\ IsNone(hist[3].val)
    /\ env.pred = 1

\* C13 -- skip(n) yields the upstream's items from index n on (nothing when
\* n is at least the upstream's length); take(n) yields the first n items
\* (all of them when n is at least the length, none when n = 0).
C13_SkipTakeCount ==
    /\ (it.kind = "SkipWhileIter" /\ it.predicate.f = "Counter" /\ hist # <<>>) =>
           LET U == it.iter.log
               n == it.predicate.maxCount
               m == IF PrefixSome(U) < n THEN PrefixSome(U) ELSE n
           IN /\ Len(U) = m + Len(hist)
              /\ m < n => IsNone(U[m + 1])
              /\ \A k \in 1..Len(hist) : hist[k].val = U[m + k]
    /\ (it.kind = "TakeWhileIter" /\ it.predicate.f = "Counter") =>
           LET U == it.iter.log
               n == it.predicate.maxCount
           IN \A k \in 1..Len(hist) :
                  /\ (k <= n /\ k <= Len(U)) => hist[k].val = U[k]
                  /\ (k <= n /\ k > Len(U)) =>
                         (IsNone(hist[k].val) /\ IsNone(U[Len(U)]))
                  /\ k > n => IsNone(hist[k].val)

\* skip(1) over two items has yielded the second one and then exhaustion.
C13_Witness ==
    /\ it.kind = "SkipWhileIter" /\ it.predicate.f = "Counter"
    /\ it.predicate.maxCount = 1
    /\ it.iter.log = <<Some(1), Some(2), None>>
    /\ Results = <<Some(2), None>>

\* The items a pipeline yields before it first reports exhaustion, at most
\* fuel of them.
RECURSIVE FirstPass(_, _, _)
FirstPass(i, e, fuel) ==
    IF fuel = 0 THEN <<>>
    ELSE LET r == next(i, e)
         IN IF IsNone(r.val) THEN <<>>
            ELSE <<Get(r.val)>> \o FirstPass(r.it, r.env, fuel - 1)

\* The first pass of the upstream a cycle was built from; longer than any
\* number of calls made when the upstream has more items than that.
CycledItems == FirstPass(it.originalIter, Env0, MaxCalls + 1)

\* C14 -- cycle over an upstream of L >= 1 items x0..x(L-1) never reports
\* exhaustion; its k-th next() (k = 0, 1, ...) returns x(k mod L).  The
\* upstream is one whose copy, as captured at construction, holds those
\* items again (a restartable upstream).
C14_CycleRepeats ==
    (it.kind = "CycleIter" /\ Restartable(it.originalIter) /\ CycledItems # <<>>) =>
        \A k \in 1..Len(hist) :
            hist[k].val = Some(CycledItems[((k - 1) % Len(CycledItems)) + 1])

\* cycle over two items has gone round twice and started the third pass.
C14_Witness ==
    /\ it.kind = "CycleIter"
    /\ Len(CycledItems) = 2
    /\ CycledItems[1] # CycledItems[2]
    /\ Len(hist) >= 5
    /\ hist[5].val = Some(CycledItems[1])

\* C15 -- cycle over an upstream whose first pass yields nothing reports
\* exhaustion on every next(); the upstream is not restarted: every call
\* advances the one working copy once.  The upstream is a sequence whose
\* exhaustion is permanent (C1); a by-reference generator directly under the
\* cycle is one, by its _done flag.
C15_CycleOfEmpty ==
    (it.kind = "CycleIter" /\ CyclesRestartable(it.originalIter) /\ CycledItems = <<>>) =>
        /\ \A k \in 1..Len(hist) : IsNone(hist[k].val)
        /\ it.iterIsEmpty
        /\ Len(it.iter.log) = Len(it.originalIter.log) + Len(hist)

\* cycle over a filter that lets nothing of a non-empty collection pass was
\* advanced three times.
C15_Witness ==
    /\ it.kind = "CycleIter"
    /\ it.originalIter.kind = "FilterIter"
    /\ it.originalIter.iter.kind = "CppIteratorWrapper"
    /\ Len(it.originalIter.iter.data) >= 1
    /\ CycledItems = <<>>
    /\ Len(hist) >= 3

\* The inner sequences of a flatten: those the outer sequence has handed out
\* and those it still holds, each as the items of its first pass.
InnerSequences ==
    LET pulled == SelectSeq(it.iter.log, LAMBDA o : IsSome(o))
        rest == FirstPass(it.iter, env, MaxCalls + 1)
        inners == [j \in 1..Len(pulled) |-> Get(pulled[j])] \o rest
    IN [j \in 1..Len(inners) |-> FirstPass(inners[j], Env0, MaxCalls + 1)]

\* S[1] ++ ... ++ S[m]
RECURSIVE Concat(_)
Concat(S) == IF S = <<>> THEN <<>> ELSE S[1] \o Concat(Tail(S))

\* The number of the inner sequence that holds the n-th item of the
\* concatenation (n >= 1 at most its length).
RECURSIVE HolderOf(_, _)
HolderOf(S, n) == IF n <= Len(S[1]) THEN 1 ELSE 1 + HolderOf(Tail(S), n - Len(S[1]))

\* C16 -- flatten yields the concatenation of the inner sequences in order
\* and then exhaustion; empty inner sequences contribute nothing; the outer
\* sequence has been advanced only as far as the inner sequence of the last
\* item yielded (to its end once exhaustion is reported).
C16_FlattenConcatenates ==
    it.kind = "FlattenIter" =>
        LET S == InnerSequences
            X == Concat(S)
            n == Len(hist)
        IN /\ \A k \in 1..n :
                  hist[k].val = (IF k <= Len(X) THEN Some(X[k]) ELSE None)
           /\ n = 0 => Len(it.iter.log) = 1
           /\ (n >= 1 /\ n <= Len(X)) => Len(it.iter.log) = HolderOf(S, n)
           /\ n > Len(X) => Len(it.iter.log) = Len(S) + 1

\* flatten over three inner sequences, the middle one empty, has yielded all
\* four items and reported exhaustion.
C16_Witness ==
    /\ it.kind = "FlattenIter"
    /\ Len(InnerSequences) = 3
    /\ InnerSequences[2] = <<>>
    /\ Len(InnerSequences[1]) = 2 /\ Len(InnerSequences[3]) = 2
    /\ Len(hist) = 5
    /\ IsSome(hist[4].val) /\ IsNone(hist[5].val)

\* C17 -- finite_generator(fn) yields what fn returns until fn first returns
\* "no value"; fn is not invoked after that call and every next() reports
\* exhaustion, even where fn would return a value again.
C17_FiniteGeneratorStops ==
    (it.kind = "FiniteGeneratorIter" /\ it.generatorFunction.f = "UserGenerator") =>
        LET script == source.generatorFunction.script
            p == PrefixSome(script)
        IN /\ \A k \in 1..Len(hist) :
                  hist[k].val = (IF k <= p THEN script[k] ELSE None)
           /\ env.gen = (IF Len(hist) <= p THEN Len(hist) ELSE p + 1)

\* The function that returns a value on its fourth call was called twice
\* although next() was called five times.
C17_Witness ==
    /\ it.kind = "FiniteGeneratorIter" /\ it.generatorFunction.f = "UserGenerator"
    /\ source.generatorFunction.script = <<Some(1), None, None, Some(2)>>
    /\ Len(hist) = 5
    /\ env.gen = 2

\* The bound test of a range on a candidate value.
InRange(g, v) == IF g.inclusive THEN v <= g.end ELSE v < g.end

\* C18 -- range(min, max, step) with step > 0 yields min, min + step, ... as
\* long as the term is less than max (at most max for range_inclusive), then
\* exhaustion; nothing when min is not below (not at most) max.
C18_RangeTerms ==
    (/\ it.kind = "FiniteGeneratorIter"
     /\ it.generatorFunction.f = "FiniteRangeGenerator"
     /\ it.generatorFunction.step > 0) =>
        LET g == source.generatorFunction
        IN \A k \in 1..Len(hist) :
               LET term == g.value + (k - 1) * g.step
               IN hist[k].val = (IF InRange(g, term) THEN Some(term) ELSE None)

\* An exclusive range whose bound is a term of the progression has yielded
\* the two terms below the bound and then exhaustion.
C18_Witness ==
    /\ it.kind = "FiniteGeneratorIter"
    /\ it.generatorFunction.f = "FiniteRangeGenerator"
    /\ ~source.generatorFunction.inclusive
    /\ source.generatorFunction.step = 2
    /\ source.generatorFunction.end = source.generatorFunction.value + 4
    /\ Len(hist) = 3
    /\ IsSome(hist[2].val) /\ IsNone(hist[3].val)

\* The k-th value of seed, f(seed), f(f(seed)), ... (k >= 1).
RECURSIVE SuccessorChain(_, _, _)
SuccessorChain(seed, limit, k) ==
    IF k = 1 \/ IsNone(seed) THEN seed
    ELSE SuccessorChain(DoubleUpTo(limit, Get(seed)), limit, k - 1)

\* C19 -- successors(seed, f) yields seed, f(seed), f(f(seed)), ... up to and
\* including the value whose successor is "no value"; f is called once per
\* value yielded: never for an empty seed and never after it returned
\* "no value".
C19_SuccessorsChain ==
    (it.kind = "FiniteGeneratorIter" /\ it.generatorFunction.f = "SuccessorCalculator") =>
        LET g == source.generatorFunction
        IN /\ \A k \in 1..Len(hist) : hist[k].val = SuccessorChain(g.value, g.limit, k)
           /\ env.succ = SomeCount(Results)

\* successors from 1 has yielded 1, 2 and 4, f was called three times, and
\* two more calls reported exhaustion.
C19_Witness ==
    /\ it.kind = "FiniteGeneratorIter" /\ it.generatorFunction.f = "SuccessorCalculator"
    /\ source.generatorFunction.value = Some(1)
    /\ Len(hist) = 5
    /\ hist[3].val = Some(4)
    /\ env.succ = 3

\* The number of the pair that decides the lexicographic comparison of A and
\* B: the first pair that is not equal, or the step at which one ends.
RECURSIVE DecidingStep(_, _)
DecidingStep(A, B) ==
    IF A = <<>> \/ B = <<>> THEN 1
    ELSE IF A[1] = B[1] /\ A[1] # NaN THEN 1 + DecidingStep(Tail(A), Tail(B))
    ELSE 1

\* The lexicographic order of A and B as an optional: no value when the
\* deciding pair cannot be compared.
Lexicographic(A, B) ==
    LET d == DecidingStep(A, B)
    IN IF d > Len(A) THEN (IF d > Len(B) THEN Some(0) ELSE Some(-1))
       ELSE IF d > Len(B) THEN Some(1)
       ELSE IF A[d] = NaN \/ B[d] = NaN THEN None
       ELSE IF A[d] < B[d] THEN Some(-1) ELSE Some(1)

\* C20 -- cmp and partial_cmp return -1 when A is a proper prefix of B, 1
\* when B is a proper prefix of A, 0 when both end together with all pairs
\* equal, and else the comparison of the first pair that is not equal; both
\* sequences are advanced once per pair up to the deciding step and no
\* further.
C20_LexicographicCmp ==
    [][(hist = <<>> /\ hist' # <<>> /\ hist'[1].op \in {"cmp", "partial_cmp"}) =>
          LET e == hist'[1]
              A == FirstPass(it, env, MaxCalls + 1)
              B == FirstPass(e.other, env, MaxCalls + 1)
          IN /\ e.op = "cmp" => e.val = Get(Lexicographic(A, B))
             /\ e.op = "partial_cmp" => e.val = Lexicographic(A, B)
             /\ Len(it'.log) = DecidingStep(A, B)
             /\ Len(e.otherAfter.log) = DecidingStep(A, B)]_vars

\* cmp has returned -1 for the second pair: two items were pulled from each
\* sequence and the other sequence holds more.
C20_Witness ==
    /\ hist # <<>> /\ hist[1].op = "cmp" /\ hist[1].val = -1
    /\ Len(it.log) = 2 /\ IsSome(it.log[2])
    /\ Len(hist[1].otherAfter.log) = 2 /\ IsSome(hist[1].otherAfter.log[2])
    /\ hist[1].other.kind = "FiniteGeneratorIter"

\* The two sequences of a comparison made on a fresh pipeline: the items of
\* the pipeline itself and those of the sequence it was compared with.
ThisItems == FirstPass(source, Env0, MaxCalls + 1)
OtherItems == FirstPass(hist[1].other, Env0, MaxCalls + 1)

\* The shorter of the two lengths.
CommonLength ==
    IF Len(ThisItems) < Len(OtherItems) THEN Len(ThisItems) ELSE Len(OtherItems)

\* Two items that are neither equal nor ordered.
Incomparable(a, b) == ~Equal(a, b) /\ ~Less(a, b) /\ ~Greater(a, b)

\* C21 -- partial_cmp and partial_cmp_by return an empty value if at least
\* one pair of same-index items of the two sequences cannot be compared
\* (the sentence of their doc comments).  The code returns at the first
\* pair that differs and never looks at the pairs behind it.
C21_EmptyIfAnyIncomparable ==
    (hist # <<>> /\ hist[1].op \in {"partial_cmp", "partial_cmp_by"}) =>
        ((\E i \in 1..CommonLength : Incomparable(ThisItems[i], OtherItems[i]))
            => IsNone(hist[1].val))

\* The walk of the two sequences meets a pair that cannot be compared before
\* any pair that differs and before the end of either sequence.
Undefined ==
    \E i \in 1..CommonLength :
        /\ Incomparable(ThisItems[i], OtherItems[i])
        /\ \A j \in 1..(i - 1) : Equal(ThisItems[j], OtherItems[j])

\* C22 -- lt, le, gt and ge return false whenever partial_cmp of the two
\* sequences is undefined, also for le and ge of two identical sequences
\* that hold an incomparable item; where it is defined they return whether
\* the lexicographic order is < 0, <= 0, > 0 and >= 0.
C22_UndefinedIsFalse ==
    (hist # <<>> /\ hist[1].op \in {"lt", "le", "gt", "ge"}) =>
        LET e == hist[1]
            order == Lexicographic(ThisItems, OtherItems)
        IN /\ Undefined => (IsNone(order) /\ e.val = FALSE)
           /\ ~Undefined =>
                /\ IsSome(order)
                /\ e.op = "lt" => (e.val <=> Get(order) < 0)
                /\ e.op = "le" => (e.val <=> Get(order) <= 0)
                /\ e.op = "gt" => (e.val <=> Get(order) > 0)
                /\ e.op = "ge" => (e.val <=> Get(order) >= 0)

\* le has returned false for two identical sequences of two items, the
\* second of them NaN.
C22_Witness ==
    /\ hist # <<>> /\ hist[1].op = "le" /\ hist[1].val = FALSE
    /\ ThisItems = OtherItems
    /\ Len(ThisItems) = 2 /\ ThisItems[1] # NaN /\ ThisItems[2] = NaN
    /\ Len(it.log) = 2

Sign(v) == IF v < 0 THEN -1 ELSE IF v > 0 THEN 1 ELSE 0

\* What the comparison function of a cmp_by or partial_cmp_by call returns
\* for the i-th pair of the two sequences of integers.
ComparatorResult(e, i) ==
    IF e.op = "cmp_by" THEN CallComparer(e.by, ThisItems[i], OtherItems[i])
    ELSE ThisItems[i] - OtherItems[i]

\* The pairs for which the comparison function returns a non-zero value.
NonZeroPairs(e) == {i \in 1..CommonLength : ComparatorResult(e, i) # 0}

\* C23 -- cmp_by and partial_cmp_by with a comparison function returning any
\* integer (such as a - b): the result is negative, zero or positive exactly
\* as the function's result on the first pair for which it is non-zero,
\* whatever its magnitude, and only pairs for which it returned 0 are passed
\* over as equal.
C23_SignOfFirstNonZeroPair ==
    (hist # <<>> /\ hist[1].op \in {"cmp_by", "partial_cmp_by"} /\ outType = "int") =>
        LET e == hist[1]
            result == IF e.op = "cmp_by" THEN e.val ELSE Get(e.val)
        IN NonZeroPairs(e) # {} =>
             LET first == CHOOSE i \in NonZeroPairs(e) :
                              \A j \in NonZeroPairs(e) : i <= j
             IN /\ Sign(result) = Sign(ComparatorResult(e, first))
                /\ Len(it.log) = first

\* The items of the pipeline a consumer was called on, as far as the calls
\* of a behaviour can reach, and those left when the call hist[k] was made.
Horizon == MaxCalls * (MaxCount + 2)
SourceItems == FirstPass(source, Env0, Horizon)
ConsumedBefore(k) == SomeCount(SubSeq(it.log, 1, hist[k].from))
Remaining(k) == SubSeq(SourceItems, ConsumedBefore(k) + 1, Len(SourceItems))

\* The pipeline was advanced n times by the call hist[k].
Advanced(k, n) == hist[k].to - hist[k].from = n

\* Every next() made on the pipeline after the call hist[k] has reported
\* exhaustion.
ExhaustedSince(k) == \A j \in (hist[k].to + 1)..Len(it.log) : IsNone(it.log[j])

\* C24 -- nth(k), k >= 0, returns the item at index k of the remaining items
\* and advances the pipeline k + 1 times, so that a following nth goes on
\* behind it; with fewer than k + 1 items left it returns no result, having
\* advanced the pipeline to its end, and the pipeline stays exhausted.
C24_NthAdvances ==
    \A k \in 1..Len(hist) :
        hist[k].op = "nth" =>
            LET e == hist[k]
                rest == Remaining(k)
            IN IF Len(rest) >= e.arg + 1
               THEN e.val = Some(rest[e.arg + 1]) /\ Advanced(k, e.arg + 1)
               ELSE /\ e.val = None
                    /\ Advanced(k, Len(rest) + 1)
                    /\ IsNone(it.log[e.to])
                    /\ ExhaustedSince(k)

\* Two nth calls in a row on a pipeline of two items: nth(0) returned the
\* first, then nth(1) found one item left, returned no result, and the
\* next() after it reported exhaustion.
C24_Witness ==
    /\ Len(hist) = 3
    /\ hist[1].op = "nth" /\ hist[1].arg = 0 /\ IsSome(hist[1].val)
    /\ hist[2].op = "nth" /\ hist[2].arg = 1 /\ IsNone(hist[2].val)
    /\ Advanced(2, 2)
    /\ hist[3].op = "next" /\ IsNone(hist[3].val)
    /\ Len(SourceItems) = 2

\* What a predicate handed to a consumer returns for an item.
Satisfies(p, v) == CallConsumerPredicate(p, v, Env0).ret

\* The index of the first item of rest for which the predicate returns
\* want, or 0 when there is none.
FirstIndex(rest, p, want) ==
    LET hits == {i \in 1..Len(rest) : Satisfies(p, rest[i]) = want}
    IN IF hits = {} THEN 0 ELSE CHOOSE i \in hits : \A j \in hits : i <= j

\* The call hist[k] stopped at the item of index stop of the items left: it
\* advanced the pipeline stop times, and the next() calls made after it
\* return the items behind that index.  With stop = 0 it ran to the end: it
\* advanced the pipeline past its last item, and the pipeline is exhausted.
ConsumedTo(k, stop) ==
    LET rest == Remaining(k)
    IN IF stop > 0
       THEN /\ Advanced(k, stop)
            /\ \A j \in (hist[k].to + 1)..Len(it.log) :
                   it.log[j] = Item([i \in 1..Len(rest) |-> Some(rest[i])],
                                    stop + (j - hist[k].to))
       ELSE Advanced(k, Len(rest) + 1) /\ ExhaustedSince(k)

\* The call hist[k] of a searching consumer stopped at the item of index
\* stop, having evaluated the predicate once on each item up to it and on no
\* other (on every item when it ran to the end).
StoppedAt(k, stop) ==
    /\ ConsumedTo(k, stop)
    /\ hist[k].calls = (IF stop > 0 THEN stop ELSE Len(Remaining(k)))

\* C25 -- all(pred) is true iff pred holds for every item left (true when
\* none is left) and any(pred) is true iff it holds for some item left
\* (false when none is left); all stops at the first item for which pred is
\* false and any at the first for which it is true: pred is not evaluated on
\* the items behind it and next() goes on to return them.
C25_AllAnyShortCircuit ==
    \A k \in 1..Len(hist) :
        LET e == hist[k]
            rest == Remaining(k)
        IN /\ e.op = "all" =>
                /\ e.val = (\A i \in 1..Len(rest) : Satisfies(e.arg, rest[i]))
                /\ StoppedAt(k, FirstIndex(rest, e.arg, FALSE))
           /\ e.op = "any" =>
                /\ e.val = (\E i \in 1..Len(rest) : Satisfies(e.arg, rest[i]))
                /\ StoppedAt(k, FirstIndex(rest, e.arg, TRUE))

\* all has returned false at the second of four items, having evaluated the
\* predicate twice, and the next() after it has returned the third item.
C25_Witness ==
    /\ Len(hist) = 2
    /\ hist[1].op = "all" /\ hist[1].val = FALSE
    /\ Advanced(1, 2) /\ hist[1].calls = 2
    /\ Len(SourceItems) = 4
    /\ hist[2].op = "next" /\ hist[2].val = Some(SourceItems[3])

\* C26 -- find(pred) returns the first item left that satisfies pred and
\* position(pred) its index, from zero, among the items left; both consume
\* the items up to and including that one and nothing behind it, and both
\* return no result, having consumed everything, when no item satisfies
\* pred.
C26_FindPositionFirstMatch ==
    \A k \in 1..Len(hist) :
        LET e == hist[k]
            rest == Remaining(k)
            match == FirstIndex(rest, e.arg, TRUE)
        IN /\ e.op = "find" =>
                /\ e.val = (IF match > 0 THEN Some(rest[match]) ELSE None)
                /\ StoppedAt(k, match)
           /\ e.op = "position" =>
                /\ e.val = (IF match > 0 THEN Some(match - 1) ELSE None)
                /\ StoppedAt(k, match)

\* After one next(), position has returned index 1, having advanced the
\* pipeline twice more, and the next() after it has returned the fourth
\* item.
C26_Witness ==
    /\ Len(hist) = 3
    /\ hist[1].op = "next" /\ IsSome(hist[1].val)
    /\ hist[2].op = "position" /\ hist[2].val = Some(1)
    /\ Advanced(2, 2)
    /\ Len(SourceItems) = 4
    /\ hist[3].op = "next" /\ hist[3].val = Some(SourceItems[4])

\* The pair (a, b) of neighbours is out of order for the call e: by the
\* comparer handed to is_sorted_by, by > for is_sorted_ascending and by <
\* for is_sorted_descending.
OutOfOrder(e, a, b) ==
    CASE e.op = "is_sorted_by" -> CallComparer(e.arg, a, b) > 0
      [] e.op = "is_sorted_ascending" -> a > b
      [] e.op = "is_sorted_descending" -> a < b

\* The index of the second item of the first pair of neighbours that is out
\* of order, or 0 when there is none.
FirstUnsorted(e, rest) ==
    LET bad == {i \in 2..Len(rest) : OutOfOrder(e, rest[i - 1], rest[i])}
    IN IF bad = {} THEN 0 ELSE CHOOSE i \in bad : \A j \in bad : i <= j

\* C27 -- is_sorted_by(cmp) returns false iff cmp(prev, cur) > 0 for some
\* pair of neighbours, so equal neighbours and sequences of fewer than two
\* items are sorted; it stops at the first such pair and leaves the items
\* behind it unconsumed.  is_sorted_ascending and is_sorted_descending are
\* the same check with the natural and the reversed order.
C27_IsSortedStopsAtFirstPair ==
    \A k \in 1..Len(hist) :
        hist[k].op \in {"is_sorted_by", "is_sorted_ascending", "is_sorted_descending"} =>
            LET e == hist[k]
                stop == FirstUnsorted(e, Remaining(k))
            IN /\ e.val = (stop = 0)
               /\ ConsumedTo(k, stop)

\* is_sorted_by has returned false at the first pair of four items, and the
\* next() after it has returned the third item.
C27_Witness ==
    /\ Len(hist) = 2
    /\ hist[1].op = "is_sorted_by" /\ hist[1].val = FALSE
    /\ Advanced(1, 2)
    /\ Len(SourceItems) = 4
    /\ hist[2].op = "next" /\ hist[2].val = Some(SourceItems[3])

\* The order in which a min/max call compares two items: the comparer handed
\* to min_by or max_by, the natural order for min and max.
OrderOf(e, a, b) ==
    IF e.op \in {"min", "max"} THEN (IF a < b THEN -1 ELSE IF a > b THEN 1 ELSE 0)
    ELSE CallComparer(e.arg, a, b)

\* The indices of the extremal items of rest: those no item is less than
\* (min, min_by), those no item is greater than (max, max_by).
Extremal(e, rest) ==
    {i \in 1..Len(rest) :
        \A j \in 1..Len(rest) :
            IF e.op \in {"min", "min_by"} THEN OrderOf(e, rest[j], rest[i]) >= 0
            ELSE OrderOf(e, rest[j], rest[i]) <= 0}

\* C28 -- min, max, min_by and max_by return no result for an empty sequence
\* and else an extremal item; of several extremal items (comparing equal)
\* the min functions and the max functions alike return the first.
C28_FirstExtremal ==
    \A k \in 1..Len(hist) :
        hist[k].op \in {"min", "max", "min_by", "max_by"} =>
            LET e == hist[k]
                rest == Remaining(k)
                ext == Extremal(e, rest)
            IN /\ rest = <<>> => e.val = None
               /\ rest # <<>> =>
                    /\ ext # {}
                    /\ e.val = Some(rest[CHOOSE i \in ext : \A j \in ext : i <= j])
               /\ ConsumedTo(k, 0)

\* max_by has returned the first of two different items that compare equal.
C28_Witness ==
    /\ Len(hist) = 1
    /\ hist[1].op = "max_by" /\ hist[1].arg = HalfDifference
    /\ Len(SourceItems) = 2 /\ SourceItems[1] # SourceItems[2]
    /\ CallComparer(HalfDifference, SourceItems[1], SourceItems[2]) = 0
    /\ hist[1].val = Some(SourceItems[1])

\* f(...f(f(acc, x0), x1)..., x(L-1)) for the items x0..x(L-1) of items,
\* every intermediate result being a value of type T.
RECURSIVE FoldLeft(_, _, _, _)
FoldLeft(T, f, acc, items) ==
    IF items = <<>> THEN acc
    ELSE FoldLeft(T, f, Convert(T, CallReducer(f, acc, Head(items), Env0).ret),
                  Tail(items))

\* C29 -- fold(seed, f) over the items x0..x(L-1) returns
\* f(...f(f(seed, x0), x1)..., x(L-1)), the seed itself for an empty
\* sequence; reduce(f) returns no result for an empty sequence and else
\* what fold(x0, f) returns over x1..x(L-1), a single item without calling
\* f.  Both consume the whole sequence and call f once per item folded.
\* The accumulator of fold has the type of its seed: int for the literal
\* seeds, the item type for the seed x0 of reduce.
C29_FoldReduce ==
    \A k \in 1..Len(hist) :
        LET e == hist[k]
            rest == Remaining(k)
        IN /\ e.op = "fold" =>
                /\ e.val = FoldLeft("int", e.arg.f, e.arg.seed, rest)
                /\ e.calls = Len(rest)
                /\ ConsumedTo(k, 0)
           /\ e.op = "reduce" =>
                /\ rest = <<>> => (e.val = None /\ e.calls = 0)
                /\ rest # <<>> =>
                     /\ e.val = Some(FoldLeft(OutType(source), e.arg, Head(rest),
                                               Tail(rest)))
                     /\ e.calls = Len(rest) - 1
                /\ ConsumedTo(k, 0)

\* reduce with 2 * acc + current over the items 100, 101 of a range of
\* int8_t has called the function once and returned 301 as an int8_t.
C29_Witness ==
    /\ Len(hist) = 1
    /\ hist[1].op = "reduce" /\ hist[1].arg = DoubleAndAdd
    /\ OutType(source) = "int8_t"
    /\ SourceItems = <<100, 101>>
    /\ hist[1].val = Some(WrapInt(301)) /\ WrapInt(301) # 301
    /\ hist[1].calls = 1

\* The items of a zip that has not been advanced and of each of its two
\* upstreams.
ZipItems == FirstPass(it, env, MaxCalls + 1)
FirstItems == FirstPass(it.iter, env, MaxCalls + 1)
SecondItems == FirstPass(it.zippedIter, env, MaxCalls + 1)

\* The pipeline is an enumerate: a zip whose first upstream is the index
\* generator.
IsEnumerate ==
    /\ it.kind = "ZipIter" /\ it.iter.kind = "GeneratorIter"
    /\ it.iter.generatorFunction.f = "InfiniteRangeGenerator"

\* C30 -- zip(A, B) yields min(length(A), length(B)) pairs, the i-th being
\* (A's i-th item, B's i-th item), and the calls made on it return just the
\* pairs of the items pulled from A and B; enumerate yields (i, A's i-th
\* item) for i = 0, 1, ..., as many pairs as A has items.
C30_ZipLength ==
    it.kind = "ZipIter" =>
        /\ hist = <<>> =>
               /\ Len(ZipItems) = (IF Len(FirstItems) < Len(SecondItems)
                                   THEN Len(FirstItems) ELSE Len(SecondItems))
               /\ \A i \in 1..Len(ZipItems) :
                      ZipItems[i] = <<FirstItems[i], SecondItems[i]>>
               /\ IsEnumerate =>
                      /\ Len(ZipItems) = Len(SecondItems)
                      /\ \A i \in 1..Len(ZipItems) :
                             ZipItems[i] = <<i - 1, SecondItems[i]>>
        /\ \A k \in 1..Len(hist) :
               LET a == Item(it.iter.log, k)
                   b == Item(it.zippedIter.log, k)
               IN hist[k].val = (IF IsSome(a) /\ IsSome(b)
                                 THEN Some(<<Get(a), Get(b)>>) ELSE None)

\* zip of a sequence of four items with one of two has yielded two pairs and
\* then reported exhaustion.
C30_Witness ==
    /\ it.kind = "ZipIter"
    /\ Len(hist) = 3
    /\ IsSome(hist[1].val) /\ IsSome(hist[2].val) /\ IsNone(hist[3].val)
    /\ SomeCount(it.iter.log) = 3
    /\ SomeCount(it.zippedIter.log) = 2

\* The items of a chain that has not been advanced and of each of its two
\* upstreams, at most Horizon of each.
ChainItems == FirstPass(it, env, Horizon)
ChainFirstItems == FirstPass(it.iter, env, Horizon)
ChainSecondItems == FirstPass(it.chainedIter, env, Horizon)

\* C31 -- chain(A, B) yields the items of A in order and then the items of B
\* in order, length(A) + length(B) items in all, also when A or B is empty
\* and when A is itself a chain; the calls made on it return the items
\* pulled from A up to A's exhaustion and from then on what B returns.
C31_ChainConcatenates ==
    it.kind = "ChainIter" =>
        /\ hist = <<>> =>
               LET AB == ChainFirstItems \o ChainSecondItems
               IN IF Len(AB) < Horizon
                  THEN /\ ChainItems = AB
                       /\ Len(ChainItems) = Len(ChainFirstItems) + Len(ChainSecondItems)
                  ELSE ChainItems = SubSeq(AB, 1, Horizon)
        /\ \A k \in 1..Len(hist) :
               LET A == it.iter.log
                   B == it.chainedIter.log
               IN hist[k].val = (IF k <= Len(A) /\ IsSome(A[k]) THEN A[k]
                                 ELSE B[k - Len(A) + 1])

\* A chain whose first upstream is itself a chain has yielded the one item
\* of the innermost sequence, the two of the inner second sequence, the two
\* of its own second sequence, and then reported exhaustion.
C31_Witness ==
    /\ it.kind = "ChainIter" /\ it.iter.kind = "ChainIter"
    /\ Len(hist) = 6
    /\ \A k \in 1..5 : IsSome(hist[k].val)
    /\ IsNone(hist[6].val)
    /\ SomeCount(it.iter.iter.log) = 1
    /\ SomeCount(it.iter.chainedIter.log) = 2
    /\ SomeCount(it.chainedIter.log) = 2

\* C32 -- on a finite pipeline count() returns the number of items left,
\* for_each calls its callback once on each item left, in order (so count
\* equals the number of callback calls on the same pipeline), collect()
\* returns the items left in order, and each of the three leaves the
\* pipeline exhausted.
C32_CountForEachCollect ==
    \A k \in 1..Len(hist) :
        LET e == hist[k]
            rest == Remaining(k)
        IN /\ e.op = "count" =>
                e.val = Len(rest) /\ e.calls = 0 /\ ConsumedTo(k, 0)
           /\ e.op = "for_each" =>
                e.val = rest /\ e.calls = Len(rest) /\ ConsumedTo(k, 0)
           /\ e.op = "collect" =>
                e.val = rest /\ e.calls = 0 /\ ConsumedTo(k, 0)

\* After one next(), collect has returned the two different items left of a
\* pipeline of three, and the next() after it has reported exhaustion.
C32_Witness ==
    /\ Len(hist) = 3
    /\ hist[1].op = "next" /\ IsSome(hist[1].val)
    /\ hist[2].op = "collect" /\ Len(hist[2].val) = 2
    /\ hist[2].val[1] # hist[2].val[2]
    /\ hist[2].val = SubSeq(SourceItems, 2, 3)
    /\ hist[3].op = "next" /\ IsNone(hist[3].val)

\* C33 -- partition(pred) returns two collections: the first holds the items
\* left for which pred returns false, the second those for which it returns
\* true, each in the original order; every item is in exactly one of them,
\* the sizes add up to the number of items left, pred is called once per
\* item, and the pipeline is left exhausted.
C33_PartitionSplits ==
    \A k \in 1..Len(hist) :
        hist[k].op = "partition" =>
            LET e == hist[k]
                rest == Remaining(k)
            IN /\ e.val.first = SelectSeq(rest, LAMBDA v : ~Satisfies(e.arg, v))
               /\ e.val.second = SelectSeq(rest, LAMBDA v : Satisfies(e.arg, v))
               /\ Len(e.val.first) + Len(e.val.second) = Len(rest)
               /\ e.calls = Len(rest)
               /\ ConsumedTo(k, 0)

\* partition by evenness of a pipeline of at least four items has put at
\* least two items into each collection.
C33_Witness ==
    /\ Len(hist) = 1
    /\ hist[1].op = "partition" /\ hist[1].arg = IsEven
    /\ Len(hist[1].val.first) >= 2 /\ Len(hist[1].val.second) >= 2
    /\ hist[1].val.first[1] # hist[1].val.first[2]
    /\ Len(SourceItems) >= 4

\* The calls made on the bridge, and the items visited by a host loop that
\* started with the begin() of hist[k]: the items designated by the bridge
\* while it did not compare equal to end().
BridgeOps == {"begin", "++", "++(int)"}
Visited(k) ==
    LET walk == SelectSeq(SubSeq(hist, k, Len(hist)),
                          LAMBDA x : x.op \in BridgeOps /\ ~x.atEnd)
    IN [i \in 1..Len(walk) |-> Get(walk[i].val)]

\* The pipeline has been advanced through the bridge of the host loop only,
\* not through a copy of it.
OneBridge == \A k \in 1..Len(hist) : hist[k].op # "++prev"

\* C34 -- begin() and every operator++ (prefix or postfix, on the bridge or
\* on a copy of it) on a bridge that is not at end() advance the pipeline
\* once and designate the item it returned; the bridge compares equal to
\* end() exactly when that call reported exhaustion, and from then on
\* operator++ leaves it equal to end() without advancing the pipeline.  The
\* items visited up to end() by a loop over one bridge are the items
\* for_each delivers on the same pipeline, in the same order.
C34_BridgeVisitsForEachItems ==
    \A k \in 1..Len(hist) :
        LET e == hist[k]
            rest == Remaining(k)
        IN /\ e.op = "for_each" => e.val = rest
           /\ e.op \in BridgeOps \cup {"++prev"} =>
                /\ ~e.wasAtEnd =>
                       /\ Advanced(k, 1)
                       /\ e.val = it.log[e.to]
                       /\ e.atEnd = IsNone(it.log[e.to])
                /\ e.wasAtEnd =>
                       /\ Advanced(k, 0)
                       /\ e.atEnd /\ IsNone(e.val)
           /\ e.op = "begin" /\ OneBridge =>
                IF hist[Len(hist)].atEnd
                THEN Visited(k) = rest
                ELSE /\ Len(Visited(k)) = Len(hist) - k + 1
                     /\ Len(Visited(k)) <= Len(rest)
                     /\ Visited(k) = SubSeq(rest, 1, Len(Visited(k)))

\* The host loop over a pipeline of two different items: begin() and the
\* first ++ designated them, the second ++ made the bridge equal to end()
\* and the third left it there.
C34_Witness ==
    /\ Len(hist) = 4
    /\ hist[1].op = "begin" /\ ~hist[1].atEnd
    /\ hist[2].op = "++" /\ ~hist[2].atEnd
    /\ hist[1].val # hist[2].val
    /\ hist[3].op = "++" /\ hist[3].atEnd /\ ~hist[3].wasAtEnd
    /\ hist[4].op = "++" /\ hist[4].atEnd /\ hist[4].wasAtEnd
    /\ Len(SourceItems) = 2

\* The pipeline after it has been advanced until it first reported
\* exhaustion (at most fuel times).
RECURSIVE Drained(_, _, _)
Drained(i, e, fuel) ==
    IF fuel = 0 THEN [it |-> i, env |-> e]
    ELSE LET r == next(i, e)
         IN IF IsNone(r.val) THEN [it |-> r.it, env |-> r.env]
            ELSE Drained(r.it, r.env, fuel - 1)

\* The index of the first call that reported exhaustion, 0 when none did.
FirstNone ==
    LET none == {k \in 1..Len(hist) : IsNone(hist[k].val)}
    IN IF none = {} THEN 0 ELSE CHOOSE k \in none : \A j \in none : k <= j

Min(a, b) == IF a < b THEN a ELSE b

\* C35 -- take(n), n >= 0, over an upstream of L items has advanced the
\* upstream min(L, n) + 1 times when it first reports exhaustion, once per
\* call, and never advances it afterwards: with L > n the item of index n
\* is pulled and discarded (for n = 0 on the first call).
C35_TakePullsOneBeyond ==
    (it.kind = "TakeWhileIter" /\ it.predicate.f = "Counter") =>
        LET U == it.iter.log
            n == it.predicate.maxCount
        IN /\ FirstNone = 0 => Len(U) = Len(hist)
           /\ FirstNone > 0 =>
                  /\ Len(U) = FirstNone
                  /\ IF IsNone(U[FirstNone]) THEN FirstNone - 1 <= n
                     ELSE FirstNone = n + 1
           /\ hist = <<>> =>
                  LET L == Len(FirstPass(it.iter, env, Horizon))
                      d == Drained(it, env, Horizon)
                  IN /\ Len(d.it.iter.log) = Min(L, n) + 1
                     /\ next(d.it, d.env).it.iter.log = d.it.iter.log

\* take(1) over an upstream of at least two items: the first call returned
\* the first item, the second pulled the second item and reported
\* exhaustion, the third left the upstream alone.
C35_Witness ==
    /\ it.kind = "TakeWhileIter" /\ it.predicate.f = "Counter"
    /\ it.predicate.maxCount = 1
    /\ Len(hist) = 3
    /\ IsSome(hist[1].val) /\ IsNone(hist[2].val) /\ IsNone(hist[3].val)
    /\ Len(it.iter.log) = 2 /\ IsSome(it.iter.log[2])

\* The results of n calls of next() on the object i in the world e, and the
\* object after them.
RECURSIVE Pulls(_, _, _)
PullsAfter(val, rest) == [vals |-> <<val>> \o rest.vals, it |-> rest.it]

PullsNext(r, n) == PullsAfter(r.val, Pulls(r.it, r.env, n - 1))

Pulls(i, e, n) ==
    IF n = 0 THEN [vals |-> <<>>, it |-> i] ELSE PullsNext(next(i, e), n)

\* A producer whose whole state is held in the object: every producer but
\* the generator around a user function that keeps its position outside.
HoldsStateByValue(i) ==
    i.kind \in {"GeneratorIter", "FiniteGeneratorIter"} =>
        i.generatorFunction.f # "UserGenerator"

\* The calls made on the stage and those made on the original, in order.
StageCalls == SelectSeq(hist, LAMBDA e : e.op = "next")
OriginalCalls == SelectSeq(hist, LAMBDA e : e.op = "original.next")

\* C36 -- a stage owns a copy of the object it was built from, for producers
\* that hold their state by value: however the calls on the stage and on
\* the original are interleaved, the original is the object that the
\* producer becomes by the calls made on the original alone and has
\* returned the producer's items from the first one on, and the stage has
\* returned what it returns when it is advanced as often with no call on
\* the original in between.
C36_StageOwnsPrivateCopy ==
    (Stages(it) >= 1 /\ HoldsStateByValue(source)) =>
        /\ LET alone == Pulls(source, Env0, Len(OriginalCalls))
           IN /\ env.original = alone.it
              /\ \A k \in 1..Len(OriginalCalls) : OriginalCalls[k].val = alone.vals[k]
        /\ StageCalls # <<>> =>
               LET alone == Pulls(StageCalls[1].self, StageCalls[1].world, Len(StageCalls))
               IN \A k \in 1..Len(StageCalls) : StageCalls[k].val = alone.vals[k]

\* A stage over a collection of two different items and the collection's
\* iterator were advanced in turn, twice each: the original has returned
\* the first item after the stage had consumed it, and the stage has gone on
\* to its second item after that.
C36_Witness ==
    /\ Stages(it) >= 1
    /\ source.kind = "CppIteratorWrapper"
    /\ Len(source.data) = 2 /\ source.data[1] # source.data[2]
    /\ Len(hist) = 4
    /\ hist[1].op = "next" /\ hist[2].op = "original.next"
    /\ hist[3].op = "next" /\ hist[4].op = "original.next"
    /\ IsSome(hist[1].val) /\ IsSome(hist[3].val) /\ hist[1].val # hist[3].val
    /\ hist[2].val = Some(source.data[1]) /\ hist[4].val = Some(source.data[2])

\* The range as the caller built it: its first value, its bound, its step,
\* and whether a value lies within the bound.
RangeMin == source.generatorFunction.value
RangeMax == source.generatorFunction.end
RangeStep == source.generatorFunction.step
WithinBound(v) ==
    IF source.generatorFunction.inclusive THEN v <= RangeMax ELSE v < RangeMax

\* C37 -- a range with a zero or negative step yields nothing when its
\* first value is not within the bound, and otherwise never reports
\* exhaustion and yields min, min + step, min + 2 * step, ... (as values of
\* the item type).
C37_NonPositiveStepNeverEnds ==
    RangeStep <= 0 =>
        \A k \in 1..Len(hist) :
            IF WithinBound(RangeMin)
            THEN hist[k].val = Some(WrapInt(RangeMin + (k - 1) * RangeStep))
            ELSE IsNone(hist[k].val)

\* C38 -- a range with a positive step yields exactly min, min + step, ...
\* as long as these numbers are within the bound, and then reports
\* exhaustion on every call, also when the number behind the last item is
\* larger than the largest value of the item type.
C38_RangeStopsAtBound ==
    RangeStep >= 1 =>
        \A k \in 1..Len(hist) :
            LET v == RangeMin + (k - 1) * RangeStep
            IN hist[k].val = (IF WithinBound(v) THEN Some(v) ELSE None)

\* --------------------------------- the caller, one loop iteration at a time
\* A next() call on a filter, filter_map, skip_while or flatten stage is
\* entered (EnterNext) and then runs one loop iteration a step
\* (LoopIteration) until an iteration returns.  hist records the entry
\* [op |-> "enter", val, pc, from], each iteration that dropped an item
\* [op |-> "pull", val] and the return [op |-> "next", val]; from is the
\* stage and the world on entry.
\* A call runs at most LoopFuel iterations and the caller enters a call
\* while hist is shorter than LoopCalls; an upstream that yields LoopHorizon
\* items without reporting exhaustion counts as not finite.
LoopFuel == MaxRange + MaxLen + 2
LoopCalls == 2 * MaxRange + MaxCalls
LoopHorizon == LoopFuel + 1

LoopUpstreams ==
    {iter(c) : c \in Colls} \cup {CycleIter(iter(c)) : c \in Colls}
    \cup {range(0, MaxRange, 1), range(1, MaxRange, 0), empty, repeat(1), repeat(2),
          infinite_range(0, 1), infinite_range(1, 2),
          TakeWhileIter(infinite_range(0, 1), Counter(MaxCount))}

\* The stages over integers as constructed.
LoopPipelines ==
    {FilterIter(u, IsEven) : u \in LoopUpstreams}
    \cup {FilterMapIter(u, DoubleIfEven) : u \in LoopUpstreams}
    \cup {SkipWhileIter(u, LessThan(2)) : u \in LoopUpstreams}
    \cup {SkipWhileIter(u, Counter(n)) : u \in LoopUpstreams, n \in Counts}

\* flatten's constructor advances the upstream once.
InitLoop ==
    /\ \/ it \in LoopPipelines /\ env = Env0
       \/ \E o \in IterProducers :
              LET c == FlattenIter(o, Env0) IN it = c.it /\ env = c.env
    /\ outType = "int"
    /\ hist = <<>>
    /\ source = it

\* The index in hist of the entry of the latest call, 0 before the first.
Entered ==
    LET e == {k \in 1..Len(hist) : hist[k].op = "enter"}
    IN IF e = {} THEN 0 ELSE CHOOSE k \in e : \A j \in e : j <= k

\* A call has been entered and has not returned.
CallPending == hist # <<>> /\ hist[Len(hist)].op # "next"

\* it.next() is called: the code of next_internal before its loop runs.
EnterNext ==
    /\ ~CallPending
    /\ Len(hist) < LoopCalls
    /\ LET s == next_internal_entry(it)
       IN /\ it' = s.it
          /\ hist' = Append(hist,
                 [op |-> "enter", val |-> None, pc |-> s.pc,
                  from |-> [it |-> it, env |-> env]])
    /\ UNCHANGED <<outType, env, source>>

\* One iteration of the loop of the pending call has run with outcome s;
\* when it returned, IterBase::next hands the result to the caller.
LoopIterated(s) ==
    /\ it' = IF s.returned
             THEN [s.it EXCEPT !.log = Append(it.log, s.val)]
             ELSE s.it
    /\ env' = s.env
    /\ hist' = Append(hist, [op |-> IF s.returned THEN "next" ELSE "pull",
                             val |-> s.val])

LoopIteration ==
    /\ CallPending
    /\ Len(hist) - Entered < LoopFuel
    /\ LoopIterated(next_internal_iteration(it, hist[Entered].pc, env))
    /\ UNCHANGED <<outType, source>>

NextLoop == EnterNext \/ LoopIteration

\* The code runs on: a pending call executes its next iteration, and a
\* draining consumer (while (const OutType* value = next()) ...) makes its
\* next call.
SpecLoop ==
    InitLoop /\ [][NextLoop]_vars /\ WF_vars(EnterNext) /\ WF_vars(LoopIteration)

\* The upstream of the stage reports exhaustion after finitely many items.
UpstreamFinite == Len(FirstPass(source.iter, Env0, LoopHorizon)) < LoopHorizon

\* Every producer at the leaves of a pipeline reports exhaustion after
\* finitely many items, whatever the stages above them do.
RECURSIVE ProducersFinite(_)
ProducersFinite(i) ==
    CASE IsProducer(i) -> Len(FirstPass(i, Env0, LoopHorizon)) < LoopHorizon
      [] i.kind = "ChainIter" -> ProducersFinite(i.iter) /\ ProducersFinite(i.chainedIter)
      [] i.kind = "ZipIter" -> ProducersFinite(i.iter) /\ ProducersFinite(i.zippedIter)
      [] i.kind = "CycleIter" -> ProducersFinite(i.originalIter)
      [] OTHER -> ProducersFinite(i.iter)

\* The pending or latest call has advanced the upstream at most once more
\* than the upstream had items left when the call was entered.
PullBound ==
    Entered > 0 =>
        LET from == hist[Entered].from
            remaining == Len(FirstPass(from.it.iter, from.env, LoopHorizon))
        IN Len(it.iter.log) - Len(from.it.iter.log) <= remaining + 1

\* A call that has just returned left the stage and the world as
\* IterBase::next run as a whole leaves them, with the same result.
ReturnsAsNext ==
    (hist # <<>> /\ hist[Len(hist)].op = "next") =>
        LET r == next(hist[Entered].from.it, hist[Entered].from.env)
        IN r.it = it /\ r.env = env /\ r.val = hist[Len(hist)].val

\* A filter whose predicate is false for every item of an upstream that
\* never reports exhaustion.
NeverPasses ==
    /\ it.kind = "FilterIter"
    /\ ~UpstreamFinite
    /\ LET items == FirstPass(source.iter, Env0, LoopHorizon)
       IN \A k \in 1..Len(items) : ~CallPredicate(it.filterFunction, items[k], Env0).ret

NoCallReturned == \A k \in 1..Len(hist) : hist[k].op # "next"
ExhaustionReported ==
    \E k \in 1..Len(hist) : hist[k].op = "next" /\ IsNone(hist[k].val)

\* C39 -- one next() on filter, filter_map, skip_while or flatten over an
\* upstream with finitely many items left returns, having advanced the
\* upstream at most remaining + 1 times, with the result of the loop run as
\* a whole; a consumer that calls next() until it reports exhaustion
\* terminates when the upstream of the stage (cycle stages included) is
\* finite; filter over an upstream that never ends, with a predicate that is
\* never true, never returns from next().
C39_LoopReturnsOnFiniteUpstream ==
    /\ [](UpstreamFinite => PullBound)
    /\ []ReturnsAsNext
    /\ [](NeverPasses => NoCallReturned)
    /\ ((UpstreamFinite /\ CallPending) ~> ~CallPending)
    /\ (UpstreamFinite ~> ExhaustionReported)

\* filter over four items: the second call dropped an odd item and returned
\* the even one after it, the last call found the upstream exhausted.
C39_Witness ==
    /\ it.kind = "FilterIter" /\ UpstreamFinite
    /\ Len(SelectSeq(hist, LAMBDA e : e.op = "pull")) >= 2
    /\ \E k \in 2..Len(hist) :
           /\ hist[k - 1].op = "pull" /\ hist[k].op = "next" /\ IsSome(hist[k].val)
    /\ hist[Len(hist)].op = "next" /\ IsNone(hist[Len(hist)].val)
    /\ hist[Len(hist) - 1].op = "pull"

\* The number of items the producers at the leaves of a pipeline hold.
RECURSIVE ProducerItems(_)
ProducerItems(i) ==
    CASE IsProducer(i) -> Len(FirstPass(i, Env0, LoopHorizon))
      [] i.kind = "ChainIter" -> ProducerItems(i.iter) + ProducerItems(i.chainedIter)
      [] i.kind = "ZipIter" -> ProducerItems(i.iter) + ProducerItems(i.zippedIter)
      [] i.kind = "CycleIter" -> ProducerItems(i.originalIter)
      [] OTHER -> ProducerItems(i.iter)

\* The calls made so far have advanced the upstream at most once per item
\* its producers hold and once more per call (for the report of
\* exhaustion).
PullsWithinProducers ==
    Len(it.iter.log) - Len(source.iter.log) <=
        ProducerItems(source.iter)
        + Len(SelectSeq(hist, LAMBDA e : e.op = "enter"))

\* C39 as stated: the consumer terminates as soon as the producers of the
\* pipeline are finite, the calls having advanced the upstream no further
\* than the producers' items and one report of exhaustion per call.
C39_TerminatesOnFiniteProducers ==
    /\ [](UpstreamFinite => PullBound)
    /\ []ReturnsAsNext
    /\ [](NeverPasses => NoCallReturned)
    /\ ((UpstreamFinite /\ CallPending) ~> ~CallPending)
    /\ [](ProducersFinite(source) => PullsWithinProducers)
    /\ (ProducersFinite(source) ~> ExhaustionReported)

====
